---- MODULE Spec2Model ----
(***************************************************************************)
(* Lumiere inventory manager: the inventory / pending-actions documents    *)
(* kept in inventory.json and pending.json, and the handlers that read     *)
(* and rewrite them.                                                       *)
(*                                                                         *)
(* "v2" is the memory + clarification manager (src/unnamed/part_002),      *)
(* "v1" the first manager (src/inventory-manager.js).  One deployment      *)
(* runs one of them; `version` says which.                                 *)
(***************************************************************************)
EXTENDS Integers, Sequences, FiniteSets, TLC

VARIABLES
    version,      \* which inventory manager module is deployed: "v1" | "v2"
    invFile,      \* parsed content of inventory.json
    pendFile,     \* parsed content of pending.json
    inflight,     \* messages suspended at the await of the oracle call
    now,          \* the clock read by new Date()
    processed,    \* number of oracle calls that have returned
    last,         \* what the most recently completed handler was given and returned
    orders        \* the order-id generator: its counters, its day, the ids issued

vars == <<version, invFile, pendFile, inflight, now, processed, last, orders>>

----------------------------------------------------------------------------
(* Bounds of the exploration *)

MaxMessages == 2

(* JavaScript values that are not strings of the domain *)
Undef == "<undefined>"
Null  == "<null>"

(* a value v is truthy in `v || x`, `if (v)`, `a && v` *)
Truthy(v) == v \notin {Undef, Null, ""}

(* obj.field : undefined when the object has no such key *)
Get(obj, field) == IF field \in DOMAIN obj THEN obj[field] ELSE Undef

(* keys that hold the output of new Date().toISOString(): always defined *)
TimeKeys == {"lastUpdatedAt", "lastMentionedAt", "updatedAt", "timestamp", "createdAt"}

(* variant: keys whose value is null are not written either *)
JsonObject_DropsNull(obj) ==
    [k \in {f \in DOMAIN obj : f \in TimeKeys \/ f = "resolved"
                                  \/ (obj[f] # Undef /\ obj[f] # Null)}
        |-> obj[k]]

(* JSON.parse(JSON.stringify(obj)) of one flat object: keys whose value is
   undefined are not written, so they are absent after the reload *)
JsonObject(obj) ==
    [k \in {f \in DOMAIN obj : f \in TimeKeys \/ f = "resolved" \/ obj[f] # Undef}
        |-> obj[k]]

----------------------------------------------------------------------------
(* Catalog: the categories of inventory.json, as the prompt lists them.
   CategoryOrder is the key order of the categories object. *)

CategoryOrder == <<"Drinks", "Fruits", "Containers">>

Categories ==
    [Drinks     |-> <<"Milk", "Oat milk">>,
     Fruits     |-> <<"Orange", "Lemon", "Apple", "Ginger", "Mint">>,
     Containers |-> <<"Large to go cups", "Regular to go cups",
                      "Espresso to go cups", "Cold to go cups">>]

ITEM_ALIASES ==
    [oat    |-> <<"Oat milk">>,
     cups   |-> <<"Large to go cups", "Regular to go cups",
                  "Espresso to go cups", "Cold to go cups">>,
     fruits |-> <<"Orange", "Lemon", "Apple", "Ginger", "Mint">>]

(* String.prototype.toLowerCase on the strings that occur *)
ToLowerCase(s) ==
    CASE s = "Milk"                -> "milk"
      [] s = "MILK"                -> "milk"
      [] s = "Oat milk"            -> "oat milk"
      [] s = "Orange"              -> "orange"
      [] s = "Lemon"               -> "lemon"
      [] s = "Apple"               -> "apple"
      [] s = "Ginger"              -> "ginger"
      [] s = "Mint"                -> "mint"
      [] s = "Large to go cups"    -> "large to go cups"
      [] s = "Regular to go cups"  -> "regular to go cups"
      [] s = "Espresso to go cups" -> "espresso to go cups"
      [] s = "Cold to go cups"     -> "cold to go cups"
      [] OTHER                     -> s

RECURSIVE FlattenCategories(_, _)
FlattenCategories(categories, order) ==
    IF order = <<>> THEN <<>>
    ELSE categories[Head(order)] \o FlattenCategories(categories, Tail(order))

getAllItemNames(inventory) ==
    FlattenCategories(inventory.categories, CategoryOrder)

(* itemName.toLowerCase() is a TypeError when itemName is undefined or
   null; find calls it once the catalog has an item *)
FindThrows(allItems, itemName) == allItems # <<>> /\ itemName \in {Undef, Null}

(* variant: a phrase that matches no catalog item is taken as a new item *)
FindItem_CreatesItem(allItems, itemName) ==
    LET hits == {i \in 1..Len(allItems) :
                    ToLowerCase(allItems[i]) = ToLowerCase(itemName)}
    IN  IF hits = {} THEN itemName
        ELSE allItems[CHOOSE i \in hits : \A j \in hits : i <= j]

(* allItems.find(item => item.toLowerCase() === itemName.toLowerCase()) *)
FindItem(allItems, itemName) ==
    LET hits == {i \in 1..Len(allItems) :
                    ToLowerCase(allItems[i]) = ToLowerCase(itemName)}
    IN  IF hits = {} THEN Undef
        ELSE allItems[CHOOSE i \in hits : \A j \in hits : i <= j]

----------------------------------------------------------------------------
(* Data layer *)

HISTORY_LIMIT == 500

EmptyInventory == [categories |-> Categories, items |-> <<>>, history |-> <<>>]
EmptyPending   == [clarifications |-> <<>>, reminders |-> <<>>]

(* JSON.stringify of the whole inventory followed by the next JSON.parse *)
JsonInventory(inventory) ==
    [categories |-> inventory.categories,
     items      |-> [k \in DOMAIN inventory.items |-> JsonObject(inventory.items[k])],
     history    |-> [i \in 1..Len(inventory.history) |-> JsonObject(inventory.history[i])]]

(* saveInventory: the new file content; writeOk = writeFileSync did not throw *)
saveInventory(file, inventory, writeOk) ==
    IF writeOk THEN JsonInventory(inventory) ELSE file

JsonPending(pending) ==
    [clarifications |-> [i \in 1..Len(pending.clarifications) |->
                            JsonObject(pending.clarifications[i])],
     reminders      |-> [i \in 1..Len(pending.reminders) |->
                            JsonObject(pending.reminders[i])]]

savePending(file, pending, writeOk) ==
    IF writeOk THEN JsonPending(pending) ELSE file

(* variant: the history is never cut *)
TruncateHistory_Never(history) == history

(* variant: slice(0, 500), the oldest entries are the ones kept *)
TruncateHistory_KeepsOldest(history) ==
    IF Len(history) > HISTORY_LIMIT
    THEN SubSeq(history, 1, HISTORY_LIMIT)
    ELSE history

(* history.slice(-500) when it is longer than 500 *)
TruncateHistory(history) ==
    IF Len(history) > HISTORY_LIMIT
    THEN SubSeq(history, Len(history) - HISTORY_LIMIT + 1, Len(history))
    ELSE history

(* obj[key] = value on a JavaScript object *)
SetKey(obj, key, value) ==
    [k \in DOMAIN obj \cup {key} |-> IF k = key THEN value ELSE obj[k]]

(* the default parameter value null replaces an undefined argument *)
DefaultNull(arg) == IF arg = Undef THEN Null ELSE arg

(* variant: the status of an existing record is never overwritten *)
NewItemRecord_KeepsStatus(existing, status, qty, unit, note, t) ==
    [status         |-> IF Truthy(Get(existing, "status"))
                        THEN Get(existing, "status") ELSE status,
     qty            |-> IF qty # Null THEN qty ELSE Get(existing, "qty"),
     unit           |-> IF unit # Null THEN unit ELSE Get(existing, "unit"),
     note           |-> IF note # Null THEN note ELSE Get(existing, "note"),
     lastUpdatedAt  |-> t,
     lastMentionedAt |-> t,
     previousStatus |-> IF Truthy(Get(existing, "status"))
                        THEN Get(existing, "status") ELSE Null]

(* variant: the record is replaced as a whole by the fields of the update *)
NewItemRecord_Replaces(existing, status, qty, unit, note, t) ==
    [status         |-> status,
     qty            |-> qty,
     unit           |-> unit,
     note           |-> note,
     lastUpdatedAt  |-> t,
     lastMentionedAt |-> t,
     previousStatus |-> IF Truthy(Get(existing, "status"))
                        THEN Get(existing, "status") ELSE Null]

(* variant: previousStatus is the status the update sets *)
NewItemRecord_PreviousIsCurrent(existing, status, qty, unit, note, t) ==
    [status         |-> status,
     qty            |-> IF qty # Null THEN qty ELSE Get(existing, "qty"),
     unit           |-> IF unit # Null THEN unit ELSE Get(existing, "unit"),
     note           |-> IF note # Null THEN note ELSE Get(existing, "note"),
     lastUpdatedAt  |-> t,
     lastMentionedAt |-> t,
     previousStatus |-> status]

(* the ItemRecord updateItem builds *)
NewItemRecord(existing, status, qty, unit, note, t) ==
    [status         |-> status,
     qty            |-> IF qty # Null THEN qty ELSE Get(existing, "qty"),
     unit           |-> IF unit # Null THEN unit ELSE Get(existing, "unit"),
     note           |-> IF note # Null THEN note ELSE Get(existing, "note"),
     lastUpdatedAt  |-> t,
     lastMentionedAt |-> t,
     previousStatus |-> IF Truthy(Get(existing, "status"))
                        THEN Get(existing, "status") ELSE Null]

(* variant: the history entry records that an update happened, not which *)
NewHistoryEntry_FixedAction(matchedItem, status, qty, unit, t) ==
    [item |-> matchedItem, action |-> "update", qty |-> qty, unit |-> unit,
     timestamp |-> t]

(* the HistoryEntry updateItem pushes *)
NewHistoryEntry(matchedItem, status, qty, unit, t) ==
    [item |-> matchedItem, action |-> status, qty |-> qty, unit |-> unit,
     timestamp |-> t]

(* updateItem(itemName, status, qty, unit, note) on the file content `file`:
   the file content afterwards, the returned value (matched name or null),
   whether the call threw instead of returning, and the document it handed
   to saveInventory (a sequence of length 0 or 1) *)
updateItem(file, itemName, status, qty0, unit0, note0, t, writeOk) ==
    LET inventory   == file
        qty         == DefaultNull(qty0)
        unit        == DefaultNull(unit0)
        note        == DefaultNull(note0)
        matchedItem == FindItem(getAllItemNames(inventory), itemName)
    IN  IF FindThrows(getAllItemNames(inventory), itemName)
        THEN [file |-> file, result |-> Null, threw |-> TRUE, saved |-> <<>>]
        ELSE IF matchedItem = Undef
        THEN [file |-> file, result |-> Null, threw |-> FALSE, saved |-> <<>>]
        ELSE
          LET existing == IF matchedItem \in DOMAIN inventory.items
                          THEN inventory.items[matchedItem] ELSE <<>>
              items2   == SetKey(inventory.items, matchedItem,
                                 NewItemRecord(existing, status, qty, unit, note, t))
              hist2    == TruncateHistory(
                            Append(inventory.history,
                                   NewHistoryEntry(matchedItem, status, qty, unit, t)))
              inv2     == [inventory EXCEPT !.items = items2, !.history = hist2]
          IN  [file |-> saveInventory(file, inv2, writeOk), result |-> matchedItem,
               threw |-> FALSE, saved |-> <<inv2>>]

----------------------------------------------------------------------------
(* Clarifications and reminders (pending.json) *)

(* pending.clarifications.find(c => c.userId === userId): the first match,
   as a sequence of length 0 (undefined) or 1 *)
FindClarification(pending, userId) ==
    LET mine == SelectSeq(pending.clarifications, LAMBDA c : c.userId = userId)
    IN  IF mine = <<>> THEN <<>> ELSE <<Head(mine)>>

getPendingClarification(file, userId) == FindClarification(file, userId)

(* variant: the clarification is pushed without removing the user's old one *)
addPendingClarification_Appends(file, userId, rawItem, options, question, t, writeOk) ==
    savePending(file,
                [file EXCEPT !.clarifications =
                    Append(file.clarifications,
                           [userId |-> userId, rawItem |-> rawItem,
                            options |-> options, question |-> question,
                            createdAt |-> t])],
                writeOk)

(* variant: the new clarification replaces every pending one *)
addPendingClarification_ReplacesAll(file, userId, rawItem, options, question, t, writeOk) ==
    savePending(file,
                [file EXCEPT !.clarifications =
                    <<[userId |-> userId, rawItem |-> rawItem,
                       options |-> options, question |-> question,
                       createdAt |-> t]>>],
                writeOk)

addPendingClarification(file, userId, rawItem, options, question, t, writeOk) ==
    LET kept    == SelectSeq(file.clarifications, LAMBDA c : c.userId # userId)
        pending == [file EXCEPT !.clarifications =
                       Append(kept, [userId |-> userId, rawItem |-> rawItem,
                                     options |-> options, question |-> question,
                                     createdAt |-> t])]
    IN  savePending(file, pending, writeOk)

(* variant: with nothing pending for the requester, the oldest pending
   clarification is removed instead *)
resolveClarification_RemovesOldest(file, userId, writeOk) ==
    IF FindClarification(file, userId) # <<>>
    THEN savePending(file,
                     [file EXCEPT !.clarifications =
                         SelectSeq(file.clarifications, LAMBDA c : c.userId # userId)],
                     writeOk)
    ELSE IF file.clarifications # <<>>
    THEN savePending(file, [file EXCEPT !.clarifications = Tail(file.clarifications)],
                     writeOk)
    ELSE file

(* resolveClarification: the file content afterwards (the removed
   clarification is FindClarification of the content before) *)
resolveClarification(file, userId, writeOk) ==
    IF FindClarification(file, userId) # <<>>
    THEN savePending(file,
                     [file EXCEPT !.clarifications =
                         SelectSeq(file.clarifications, LAMBDA c : c.userId # userId)],
                     writeOk)
    ELSE file

addReminder(file, userId, text, when, t, writeOk) ==
    savePending(file,
                [file EXCEPT !.reminders =
                    Append(file.reminders,
                           [userId |-> userId, text |-> text, when |-> when,
                            createdAt |-> t, resolved |-> FALSE])],
                writeOk)

(* The clock counts hours; a day has 24 of them and the evening starts at
   20:00 local time.  now.getHours() is the hour of the day. *)
HOURS_PER_DAY == 24
TONIGHT_HOUR  == 20

getHours(t) == t % HOURS_PER_DAY

(* Math.floor((now - created) / (1000 * 60 * 60 * 24)) *)
DaysDiff(t, created) ==
    IF t >= created THEN (t - created) \div HOURS_PER_DAY
    ELSE 0 - ((created - t + HOURS_PER_DAY - 1) \div HOURS_PER_DAY)

(* variant: a reminder for tomorrow is due as soon as it is stored *)
getDueReminders_TomorrowAtOnce(file, t) ==
    SelectSeq(file.reminders,
              LAMBDA r : /\ ~r.resolved
                         /\ \/ Get(r, "when") = "tonight" /\ getHours(t) >= TONIGHT_HOUR
                            \/ Get(r, "when") = "tomorrow")

(* getDueReminders: the filter over pending.reminders; nothing is written *)
getDueReminders(file, t) ==
    SelectSeq(file.reminders,
              LAMBDA r : /\ ~r.resolved
                         /\ \/ Get(r, "when") = "tonight" /\ getHours(t) >= TONIGHT_HOUR
                            \/ /\ Get(r, "when") = "tomorrow"
                               /\ DaysDiff(t, r.createdAt) >= 1)

----------------------------------------------------------------------------
(* Reply text.  A text is the sequence of its parts; '' is the empty
   sequence.  QuestionTexts are the parts that contain a '?'. *)

QuestionTexts == {"Which cups?", "Brown or white sugar?", "Need anything else?"}

IncludesQuestionMark(text) == \E i \in 1..Len(text) : text[i] \in QuestionTexts

(* reply || '' *)
TextOf(reply) == IF Truthy(reply) THEN <<reply>> ELSE <<>>

RECURSIVE JoinNames(_)
JoinNames(updatedItems) ==
    IF updatedItems = <<>> THEN <<>>
    ELSE IF Len(updatedItems) = 1 THEN <<Head(updatedItems).name>>
    ELSE <<Head(updatedItems).name, ", ">> \o JoinNames(Tail(updatedItems))

StatusEmoji(status) ==
    IF status = "stocked" THEN "[ok]" ELSE IF status = "low" THEN "[warn]" ELSE "[x]"

ConfirmationText(updatedItems) ==
    <<StatusEmoji(Head(updatedItems).status), " Got it! Updated: ">>
        \o JoinNames(updatedItems)

(* formatStatusMessage: header, the names that need attention, the last
   three history entries most recent first *)
NamesWithStatus(inventory, status) ==
    SelectSeq(getAllItemNames(inventory),
              LAMBDA item : /\ item \in DOMAIN inventory.items
                            /\ Get(inventory.items[item], "status") = status)

(* variant: the items without a record are left out of the snapshot *)
getInventoryStatus_SkipsUntracked(inventory) ==
    [out     |-> NamesWithStatus(inventory, "out"),
     low     |-> NamesWithStatus(inventory, "low"),
     stocked |-> SelectSeq(getAllItemNames(inventory),
                           LAMBDA item :
                               /\ item \in DOMAIN inventory.items
                               /\ Get(inventory.items[item], "status") \notin {"out", "low"}),
     unknown |-> <<>>]

(* getInventoryStatus: the four lists, each in catalog order; a record whose
   status is neither out nor low counts as stocked *)
getInventoryStatus(inventory) ==
    [out     |-> NamesWithStatus(inventory, "out"),
     low     |-> NamesWithStatus(inventory, "low"),
     stocked |-> SelectSeq(getAllItemNames(inventory),
                           LAMBDA item :
                               /\ item \in DOMAIN inventory.items
                               /\ Get(inventory.items[item], "status") \notin {"out", "low"}),
     unknown |-> SelectSeq(getAllItemNames(inventory),
                           LAMBDA item : item \notin DOMAIN inventory.items)]

formatStatusMessage(inventory) ==
    LET h == inventory.history
        n == Len(h)
    IN  <<"LUMIERE INVENTORY", "Out:">> \o NamesWithStatus(inventory, "out")
          \o <<"Low:">> \o NamesWithStatus(inventory, "low")
          \o <<"Recent updates:">>
          \o [i \in 1..(IF n < 3 THEN n ELSE 3) |-> h[n + 1 - i].item]

----------------------------------------------------------------------------
(* processInventoryMessage of the v2 manager, from the point where the
   oracle call has returned `parsed` *)

(* the for-loop over parsed.updates; saved is the document of its last call
   of saveInventory *)
RECURSIVE ApplyUpdates(_, _, _, _, _, _)
ApplyUpdates(file, updates, t, writeOk, updatedItems, failedItems) ==
    IF updates = <<>>
    THEN [file |-> file, updatedItems |-> updatedItems, failedItems |-> failedItems,
          threw |-> FALSE, saved |-> <<>>]
    ELSE
      LET update == Head(updates)
          r      == updateItem(file, update.item, update.status, update.qty,
                               update.unit, update.note, t, writeOk)
      IN  IF r.threw
          THEN [file |-> r.file, updatedItems |-> updatedItems,
                failedItems |-> failedItems, threw |-> TRUE, saved |-> <<>>]
          ELSE IF r.result # Null
          THEN LET rest == ApplyUpdates(r.file, Tail(updates), t, writeOk,
                                        Append(updatedItems,
                                               [name |-> r.result,
                                                status |-> update.status]),
                                        failedItems)
               IN  [rest EXCEPT !.saved = IF @ = <<>> THEN r.saved ELSE @]
          ELSE ApplyUpdates(r.file, Tail(updates), t, writeOk,
                            updatedItems, Append(failedItems, update.item))

(* variant: resolved only when an update names one of the offered options *)
ResolveStep_OnlyOptions(pend, userId, parsed, writeOk) ==
    LET mine == getPendingClarification(pend, userId)
    IN  IF /\ mine # <<>>
           /\ \E k \in 1..Len(parsed.updates) : \E o \in 1..Len(mine[1].options) :
                 ToLowerCase(parsed.updates[k].item) = ToLowerCase(mine[1].options[o])
        THEN resolveClarification(pend, userId, writeOk)
        ELSE pend

(* the pending clarification is resolved when there is one and the parsed
   intent carries updates *)
ResolveStep(pend, userId, parsed, writeOk) ==
    IF getPendingClarification(pend, userId) # <<>> /\ Len(parsed.updates) > 0
    THEN resolveClarification(pend, userId, writeOk)
    ELSE pend

(* only the first proposed clarification is stored *)
ClarifyStep(pend, userId, parsed, t, writeOk) ==
    IF Len(parsed.clarifications) > 0
    THEN LET clarification == parsed.clarifications[1]
         IN  addPendingClarification(pend, userId, clarification.raw,
                                     clarification.options, clarification.question,
                                     t, writeOk)
    ELSE pend

ReminderStep(pend, userId, parsed, t, writeOk) ==
    IF Truthy(parsed.reminder.text)
    THEN addReminder(pend, userId, parsed.reminder.text, parsed.reminder.when,
                     t, writeOk)
    ELSE pend

(* variant: the question of a proposed clarification is never appended *)
BuildResponse_NeverAsks(parsed, updatedItems) ==
    IF Len(updatedItems) > 0 /\ TextOf(parsed.reply) = <<>>
    THEN ConfirmationText(updatedItems)
    ELSE TextOf(parsed.reply)

BuildResponse(parsed, updatedItems) ==
    LET r0 == TextOf(parsed.reply)
        r1 == IF Len(parsed.clarifications) > 0 /\ ~IncludesQuestionMark(r0)
              THEN r0 \o <<"\n\n", parsed.clarifications[1].question>>
              ELSE r0
    IN  IF Len(updatedItems) > 0 /\ r1 = <<>>
        THEN ConfirmationText(updatedItems)
        ELSE r1

(* the value a handler returns: a text, or null (no reply); Thrown when the
   handler did not return (its promise is rejected) *)
NoReply == [sent |-> FALSE, text |-> <<>>, threw |-> FALSE]
Thrown  == [sent |-> FALSE, text |-> <<>>, threw |-> TRUE]
ReplyOf(text) ==
    IF text = <<>> THEN NoReply ELSE [sent |-> TRUE, text |-> text, threw |-> FALSE]

(* processInventoryMessage after its early returns: the clarification
   response, the updates, the new clarification, the reminder, the reply *)
ReconcileIntent(inv, pend, userId, parsed, t, fs) ==
    LET pend1 == ResolveStep(pend, userId, parsed, fs.pend)
        upd   == ApplyUpdates(inv, parsed.updates, t, fs.inv, <<>>, <<>>)
        pend2 == ClarifyStep(pend1, userId, parsed, t, fs.pend)
        pend3 == ReminderStep(pend2, userId, parsed, t, fs.pend)
    IN  IF upd.threw
        THEN [inv |-> upd.file, pend |-> pend1, out |-> Thrown,
              updatedItems |-> upd.updatedItems, failedItems |-> upd.failedItems,
              saved |-> upd.saved]
        ELSE [inv |-> upd.file, pend |-> pend3,
              out |-> ReplyOf(BuildResponse(parsed, upd.updatedItems)),
              updatedItems |-> upd.updatedItems, failedItems |-> upd.failedItems,
              saved |-> upd.saved]

(* what the early returns give back: the documents as they were *)
Untouched(inv, pend, out) ==
    [inv |-> inv, pend |-> pend, out |-> out,
     updatedItems |-> <<>>, failedItems |-> <<>>, saved |-> <<>>]

(* variant: a failed oracle call is taken as an answer to the pending
   question, which is removed *)
processInventoryMessage_FailureResolves(inv, pend, userId, parsed, t, fs) ==
    IF ~parsed.ok
    THEN Untouched(inv, resolveClarification(pend, userId, fs.pend), NoReply)
    ELSE IF parsed.intent = "ignore"
    THEN Untouched(inv, pend, NoReply)
    ELSE IF parsed.intent = "status"
    THEN Untouched(inv, pend, ReplyOf(formatStatusMessage(inv)))
    ELSE ReconcileIntent(inv, pend, userId, parsed, t, fs)

(* variant: an ignored message is answered with the reply of the oracle *)
processInventoryMessage_IgnoreReplies(inv, pend, userId, parsed, t, fs) ==
    IF ~parsed.ok
    THEN Untouched(inv, pend, NoReply)
    ELSE IF parsed.intent = "ignore"
    THEN Untouched(inv, pend, ReplyOf(TextOf(parsed.reply)))
    ELSE IF parsed.intent = "status"
    THEN Untouched(inv, pend, ReplyOf(formatStatusMessage(inv)))
    ELSE ReconcileIntent(inv, pend, userId, parsed, t, fs)

(* variant: a status request is reconciled before the snapshot is rendered *)
processInventoryMessage_StatusReconciles(inv, pend, userId, parsed, t, fs) ==
    IF ~parsed.ok \/ parsed.intent = "ignore"
    THEN Untouched(inv, pend, NoReply)
    ELSE IF parsed.intent = "status"
    THEN LET r == ReconcileIntent(inv, pend, userId, parsed, t, fs)
         IN  [r EXCEPT !.out = IF r.out.threw THEN Thrown
                                ELSE ReplyOf(formatStatusMessage(r.inv))]
    ELSE ReconcileIntent(inv, pend, userId, parsed, t, fs)

processInventoryMessage(inv, pend, userId, parsed, t, fs) ==
    IF ~parsed.ok \/ parsed.intent = "ignore"
    THEN Untouched(inv, pend, NoReply)
    ELSE IF parsed.intent = "status"
    THEN Untouched(inv, pend, ReplyOf(formatStatusMessage(inv)))
    ELSE ReconcileIntent(inv, pend, userId, parsed, t, fs)

----------------------------------------------------------------------------
(* The v1 manager (src/inventory-manager.js) *)

(* statusMap[parsed.action] *)
StatusMap(action) ==
    CASE action = "restock" -> "stocked"
      [] action = "low"     -> "low"
      [] action = "out"     -> "out"
      [] OTHER              -> Undef

(* variant: the history entry is pushed and an existing record is kept *)
updateItemStatus_KeepsRecord(file, itemName, status, t, writeOk) ==
    LET inventory   == file
        matchedItem == FindItem(getAllItemNames(inventory), itemName)
    IN  IF FindThrows(getAllItemNames(inventory), itemName)
        THEN [file |-> file, result |-> FALSE, threw |-> TRUE]
        ELSE IF matchedItem = Undef
        THEN [file |-> file, result |-> FALSE, threw |-> FALSE]
        ELSE
          LET items2 == IF matchedItem \in DOMAIN inventory.items
                        THEN inventory.items
                        ELSE SetKey(inventory.items, matchedItem,
                                    [status |-> status, updatedAt |-> t])
              hist2  == TruncateHistory(
                          Append(inventory.history,
                                 [item |-> matchedItem, action |-> status,
                                  timestamp |-> t]))
              inv2   == [inventory EXCEPT !.items = items2, !.history = hist2]
          IN  [file |-> saveInventory(file, inv2, writeOk), result |-> TRUE,
               threw |-> FALSE]

(* updateItemStatus(itemName, status) of the v1 manager *)
updateItemStatus(file, itemName, status, t, writeOk) ==
    LET inventory   == file
        matchedItem == FindItem(getAllItemNames(inventory), itemName)
    IN  IF FindThrows(getAllItemNames(inventory), itemName)
        THEN [file |-> file, result |-> FALSE, threw |-> TRUE]
        ELSE IF matchedItem = Undef
        THEN [file |-> file, result |-> FALSE, threw |-> FALSE]
        ELSE
          LET items2 == SetKey(inventory.items, matchedItem,
                               [status |-> status, updatedAt |-> t])
              hist2  == TruncateHistory(
                          Append(inventory.history,
                                 [item |-> matchedItem, action |-> status,
                                  timestamp |-> t]))
              inv2   == [inventory EXCEPT !.items = items2, !.history = hist2]
          IN  [file |-> saveInventory(file, inv2, writeOk), result |-> TRUE,
               threw |-> FALSE]

(* the for-loop over parsed.items; updatedItems collects the phrases *)
RECURSIVE ApplyItemsV1(_, _, _, _, _, _)
ApplyItemsV1(file, items, status, t, writeOk, updatedItems) ==
    IF items = <<>>
    THEN [file |-> file, updatedItems |-> updatedItems, threw |-> FALSE]
    ELSE
      LET r == updateItemStatus(file, Head(items), status, t, writeOk)
      IN  IF r.threw
          THEN [file |-> r.file, updatedItems |-> updatedItems, threw |-> TRUE]
          ELSE
          ApplyItemsV1(r.file, Tail(items), status, t, writeOk,
                       IF r.result THEN Append(updatedItems, Head(items))
                       ELSE updatedItems)

RECURSIVE JoinPhrases(_)
JoinPhrases(phrases) ==
    IF phrases = <<>> THEN <<>>
    ELSE IF Len(phrases) = 1 THEN <<Head(phrases)>>
    ELSE <<Head(phrases), ", ">> \o JoinPhrases(Tail(phrases))

StatusText(status) ==
    IF status = "stocked" THEN "RESTOCKED"
    ELSE IF status = "low" THEN "marked as LOW" ELSE "marked as OUT"

formatStatusMessageV1(inventory) ==
    <<"INVENTORY STATUS", "OUT">> \o NamesWithStatus(inventory, "out")
        \o <<"LOW">> \o NamesWithStatus(inventory, "low")

(* getPredictions.  Times are in hours, as everywhere; a gap in days is
   the gap in hours over 24. *)

(* Math.round(a / b) for b > 0: halves go up *)
MathRound(a, b) == (2 * a + b) \div (2 * b)

(* itemHistory[item]: the timestamps of the item's stocked entries, in
   history order *)
StockedDates(history, item) ==
    LET sel == SelectSeq(history,
                         LAMBDA e : e.item = item /\ Get(e, "action") = "stocked")
    IN  [i \in 1..Len(sel) |-> sel[i].timestamp]

(* Object.entries(itemHistory): the items in the order of their first
   stocked entry *)
StockedItems(history) ==
    LET tagged == [i \in 1..Len(history) |-> [i |-> i, e |-> history[i]]]
        firsts == SelectSeq(tagged,
                            LAMBDA x :
                                /\ Get(x.e, "action") = "stocked"
                                /\ \A j \in 1..(x.i - 1) :
                                      ~(/\ history[j].item = x.e.item
                                        /\ Get(history[j], "action") = "stocked"))
    IN  [i \in 1..Len(firsts) |-> firsts[i].e.item]

(* dates.sort((a, b) => a - b) *)
RECURSIVE InsertDate(_, _)
InsertDate(sorted, d) ==
    IF sorted = <<>> THEN <<d>>
    ELSE IF d < Head(sorted) THEN <<d>> \o sorted
    ELSE <<Head(sorted)>> \o InsertDate(Tail(sorted), d)

RECURSIVE SortDates(_)
SortDates(dates) ==
    IF dates = <<>> THEN <<>>
    ELSE InsertDate(SortDates(SubSeq(dates, 1, Len(dates) - 1)), dates[Len(dates)])

(* the loop that adds the gaps between consecutive dates *)
RECURSIVE TotalGap(_)
TotalGap(dates) ==
    IF Len(dates) < 2 THEN 0
    ELSE (dates[2] - dates[1]) + TotalGap(Tail(dates))

(* avgDays, for at least two sorted dates *)
AvgDays(dates) == MathRound(TotalGap(dates), HOURS_PER_DAY * (Len(dates) - 1))

DaysSinceRestock(dates, t) == MathRound(t - dates[Len(dates)], HOURS_PER_DAY)

(* variant: due only from the average interval on *)
DueSoon_OnlyWhenDue(daysSinceRestock, avgDays) == daysSinceRestock >= avgDays

(* daysSinceRestock >= avgDays - 1 *)
DueSoon(daysSinceRestock, avgDays) == daysSinceRestock >= avgDays - 1

(* variant: urgent from the day before the average interval *)
Urgent_FromDayBefore(daysSinceRestock, avgDays) == daysSinceRestock >= avgDays - 1

Urgent(daysSinceRestock, avgDays) == daysSinceRestock >= avgDays

PredictionOf(item, dates, t) ==
    [item             |-> item,
     avgDays          |-> AvgDays(dates),
     daysSinceRestock |-> DaysSinceRestock(dates, t),
     urgent           |-> Urgent(DaysSinceRestock(dates, t), AvgDays(dates))]

(* variant: one restock is enough, with an average interval of 0 days *)
getPredictions_NoMinimum(inventory, t) ==
    LET dates(item) == SortDates(StockedDates(inventory.history, item))
        avg(item)   == IF Len(dates(item)) >= 2 THEN AvgDays(dates(item)) ELSE 0
        due == SelectSeq(StockedItems(inventory.history),
                         LAMBDA item :
                             DueSoon(DaysSinceRestock(dates(item), t), avg(item)))
    IN  [i \in 1..Len(due) |->
            [item             |-> due[i],
             avgDays          |-> avg(due[i]),
             daysSinceRestock |-> DaysSinceRestock(dates(due[i]), t),
             urgent           |-> Urgent(DaysSinceRestock(dates(due[i]), t), avg(due[i]))]]

getPredictions(inventory, t) ==
    LET dates(item) == SortDates(StockedDates(inventory.history, item))
        due == SelectSeq(StockedItems(inventory.history),
                         LAMBDA item :
                             /\ Len(dates(item)) >= 2
                             /\ DueSoon(DaysSinceRestock(dates(item), t),
                                        AvgDays(dates(item))))
    IN  [i \in 1..Len(due) |-> PredictionOf(due[i], dates(due[i]), t)]

(* processInventoryMessage of the v1 manager.  The predictions block of its
   status message is what Predict returns. *)
processInventoryMessageV1(inv, parsed, t, fs) ==
    IF ~parsed.ok \/ parsed.action \in {"ignore", "unknown"}
    THEN [inv |-> inv, out |-> NoReply, updatedItems |-> <<>>]
    ELSE IF parsed.action = "status"
    THEN [inv |-> inv, out |-> ReplyOf(formatStatusMessageV1(inv)),
          updatedItems |-> <<>>]
    ELSE
      LET status == StatusMap(parsed.action)
          upd    == ApplyItemsV1(inv, parsed.items, status, t, fs.inv, <<>>)
      IN  [inv |-> upd.file,
           out |-> IF upd.threw THEN Thrown
                   ELSE IF Len(upd.updatedItems) = 0
                   THEN ReplyOf(<<"Couldn't find those items in inventory. Check spelling?">>)
                   ELSE ReplyOf(<<StatusEmoji(status), StatusText(status)>>
                                  \o JoinPhrases(upd.updatedItems)),
           updatedItems |-> upd.updatedItems]

----------------------------------------------------------------------------
(* Actions *)

Users == {"u1", "u2"}

(* parseInventoryMessage up to the await of the oracle call: the inventory
   is loaded, the pending clarification of the requester is read and given to
   the oracle *)
Receive(userId, cap) ==
    /\ version = "v2"
    /\ Len(inflight) < cap
    /\ processed + Len(inflight) < MaxMessages
    /\ inflight' = Append(inflight,
                          [userId    |-> userId,
                           inventory |-> invFile,
                           context   |-> FindClarification(pendFile, userId)])
    /\ UNCHANGED <<version, invFile, pendFile, now, processed, last, orders>>

(* variant: the reconciliation works on the inventory that was loaded
   before the oracle call *)
Respond_UsesParseTimeInventory(i, parsed, fs) ==
    /\ version = "v2"
    /\ i \in 1..Len(inflight)
    /\ \E m \in {inflight[i]} :
       \E r \in {processInventoryMessage(m.inventory, pendFile, m.userId, parsed, now, fs)} :
           /\ invFile'  = r.inv
           /\ pendFile' = r.pend
           /\ last' = [op |-> "v2", userId |-> m.userId, context |-> m.context,
                       inventory |-> m.inventory,
                       parsed |-> parsed, fs |-> fs,
                       pendingBefore |-> FindClarification(pendFile, m.userId),
                       out |-> r.out, updatedItems |-> r.updatedItems,
                       failedItems |-> r.failedItems, saved |-> r.saved]
    /\ inflight' = [j \in 1..(Len(inflight) - 1) |->
                       IF j < i THEN inflight[j] ELSE inflight[j + 1]]
    /\ now' = now + 1
    /\ processed' = processed + 1
    /\ UNCHANGED <<version, orders>>

(* the oracle call of inflight message i returns `parsed`; the rest of
   processInventoryMessage runs without suspension: it has no await and
   every file access is synchronous.  fs tells whether the writes to
   inventory.json / pending.json succeed during this handler *)
Respond(i, parsed, fs) ==
    /\ version = "v2"
    /\ i \in 1..Len(inflight)
    /\ \E m \in {inflight[i]} :
       \E r \in {processInventoryMessage(invFile, pendFile, m.userId, parsed, now, fs)} :
           /\ invFile'  = r.inv
           /\ pendFile' = r.pend
           /\ last' = [op |-> "v2", userId |-> m.userId, context |-> m.context,
                       inventory |-> m.inventory,
                       parsed |-> parsed, fs |-> fs,
                       pendingBefore |-> FindClarification(pendFile, m.userId),
                       out |-> r.out, updatedItems |-> r.updatedItems,
                       failedItems |-> r.failedItems, saved |-> r.saved]
    /\ inflight' = [j \in 1..(Len(inflight) - 1) |->
                       IF j < i THEN inflight[j] ELSE inflight[j + 1]]
    /\ now' = now + 1
    /\ processed' = processed + 1
    /\ UNCHANGED <<version, orders>>

(* one message through the v1 manager (nothing is read before its await) *)
ProcessMessageV1(parsed, fs) ==
    /\ version = "v1"
    /\ processed < MaxMessages
    /\ \E r \in {processInventoryMessageV1(invFile, parsed, now, fs)} :
           /\ invFile' = r.inv
           /\ last' = [op |-> "v1", parsed |-> parsed, fs |-> fs, out |-> r.out,
                       updatedItems |-> r.updatedItems]
    /\ now' = now + 1
    /\ processed' = processed + 1
    /\ UNCHANGED <<version, pendFile, inflight, orders>>

(* a due-check: getDueReminders() is called; `before` is what the due-check
   just before it returned, when no message was handled in between *)
DueCheck ==
    /\ version = "v2"
    /\ last' = [op |-> "due", at |-> now,
                due |-> getDueReminders(pendFile, now),
                before |-> IF last.op = "due" THEN last.due ELSE <<>>]
    /\ UNCHANGED <<version, invFile, pendFile, inflight, now, processed, orders>>

(* resolveClarification(userId) is called; it returns the clarification it
   removed, or undefined.  `repeated` says that the call before it was the
   same call and its write was accepted *)
ResolveCall(userId, writeOk) ==
    /\ version = "v2"
    /\ pendFile' = resolveClarification(pendFile, userId, writeOk)
    /\ last' = [op |-> "resolve", userId |-> userId, writeOk |-> writeOk,
                removed |-> FindClarification(pendFile, userId),
                repeated |-> /\ last.op = "resolve"
                             /\ last.userId = userId
                             /\ last.writeOk]
    /\ UNCHANGED <<version, invFile, inflight, now, processed, orders>>

(* getPredictions() is called *)
Predict ==
    /\ version = "v1"
    /\ last' = [op |-> "predict", at |-> now,
                predictions |-> getPredictions(invFile, now)]
    /\ UNCHANGED <<version, invFile, pendFile, inflight, now, processed, orders>>

(* time passes: the clock shows t *)
Tick(t) ==
    /\ t > now
    /\ now' = t
    /\ UNCHANGED <<version, invFile, pendFile, inflight, processed, last, orders>>

----------------------------------------------------------------------------
(* Order ids.  The repository holds two generators named generateOrderId: the
   one of index.js compares the calendar day with lastOrderDate and resets
   both counters on a new day; the one of part_002 has no lastOrderDate and
   only increments.  `variant` says which of the two files is running. *)

MaxOrders == 3

OrderTypes == {"preorder", "wholesale"}

(* toDateString(), and the month and day of the id: the local calendar day *)
DateOf(t) == t \div HOURS_PER_DAY

(* Texts that are searched or compared character by character are sequences
   of one-character strings.  The clock counts hours from 00:00 of January 1
   of a year of 365 days. *)

DaysInMonth == <<31, 28, 31, 30, 31, 30, 31, 31, 30, 31, 30, 31>>

DAYS_PER_YEAR == 365

(* date.getMonth() + 1 and date.getDate() of day-of-year d (0 is January 1) *)
RECURSIVE MonthDay(_, _)
MonthDay(d, m) ==
    IF d < DaysInMonth[m]
    THEN [month |-> m, day |-> d + 1]
    ELSE MonthDay(d - DaysInMonth[m], m + 1)

MonthOf(t) == MonthDay(DateOf(t) % DAYS_PER_YEAR, 1).month

DayOfMonth(t) == MonthDay(DateOf(t) % DAYS_PER_YEAR, 1).day

DigitChars == <<"0", "1", "2", "3", "4", "5", "6", "7", "8", "9">>

(* Number.prototype.toString(), what a template literal does with a number *)
RECURSIVE Digits(_)
Digits(n) ==
    IF n < 10 THEN <<DigitChars[n + 1]>>
    ELSE Digits(n \div 10) \o <<DigitChars[(n % 10) + 1]>>

(* String.prototype.padStart(width, '0') *)
RECURSIVE PadStart(_, _)
PadStart(chars, width) ==
    IF Len(chars) >= width THEN chars ELSE PadStart(<<"0">> \o chars, width)

(* module load: both counters 1; index.js also records the day of the load.
   The bot has posted nothing and has shown no button; the calendar client is
   there or not (enabled); nothing in the code writes to an intake channel. *)
OrdersAtStart(variant, t) ==
    [variant       |-> variant,
     orderCounter  |-> [preorder |-> 1, wholesale |-> 1],
     lastOrderDate |-> IF variant = "index" THEN DateOf(t) ELSE Undef,
     issued        |-> <<>>,
     enabled       |-> TRUE,
     intake        |-> [preorder |-> <<>>, wholesale |-> <<>>],
     output        |-> [preorder |-> <<>>, wholesale |-> <<>>],
     calendar      |-> {},
     buttons       |-> <<>>,
     serial        |-> 1,
     deletes       |-> 0]

(* index.js: reset on a new day, then orderCounter[type]++; the id is
   `${prefix}${month}${day}${num}` *)
generateOrderId(o, type, t) ==
    LET today == DateOf(t)
        fresh == IF today # o.lastOrderDate
                 THEN [o EXCEPT !.orderCounter = [preorder |-> 1, wholesale |-> 1],
                                !.lastOrderDate = today]
                 ELSE o
        num   == fresh.orderCounter[type]
    IN  [orders |-> [fresh EXCEPT !.orderCounter[type] = num + 1],
         id     |-> (IF type = "preorder" THEN <<"p", "r", "e">> ELSE <<"w", "h", "o">>)
                      \o Digits(MonthOf(t)) \o Digits(DayOfMonth(t)) \o Digits(num),
         num    |-> num]

(* part_002: orderCounter[type]++ and nothing else; the id is
   `${prefix}-${MMDD}-${NNN}` *)
generateOrderIdPart002(o, type, t) ==
    LET num == o.orderCounter[type]
    IN  [orders |-> [o EXCEPT !.orderCounter[type] = num + 1],
         id     |-> (IF type = "preorder" THEN <<"P", "R", "E">> ELSE <<"W", "H", "O">>)
                      \o <<"-">> \o PadStart(Digits(MonthOf(t)), 2)
                      \o PadStart(Digits(DayOfMonth(t)), 2)
                      \o <<"-">> \o PadStart(Digits(num), 3),
         num    |-> num]

(* an order form is submitted: the handler asks for an id of its type *)
GenerateOrderId(type) ==
    /\ Len(orders.issued) < MaxOrders
    /\ \E r \in {IF orders.variant = "index"
                  THEN generateOrderId(orders, type, now)
                  ELSE generateOrderIdPart002(orders, type, now)} :
          orders' = [r.orders EXCEPT !.issued =
                        Append(@, [type |-> type, id |-> r.id, num |-> r.num,
                                   at |-> now])]
    /\ UNCHANGED <<version, invFile, pendFile, inflight, now, processed, last>>

----------------------------------------------------------------------------
(* The order bot of index.js: modal submissions, /delete and its buttons.
   Each handler is one step; between its awaits it touches nothing another
   handler reads except the channels and the calendar, which it reads once. *)

MaxSubmits == 2

MaxDeletes == 1

(* ids the calendar service hands out, and the one of the n-th submission *)
EventIds == <<"ev1", "ev2", "ev3", "ev4", "ev5">>

(* chrono.parseDate of the pickup / delivery text: null or a date *)
ParsedDates == {Null, "date"}

(* text.includes(sub) *)
Includes(text, sub) ==
    \E k \in 0..(Len(text) - Len(sub)) : SubSeq(text, k + 1, k + Len(sub)) = sub

(* text.startsWith(sub) *)
StartsWith(text, sub) ==
    Len(text) >= Len(sub) /\ SubSeq(text, 1, Len(sub)) = sub

(* toLowerCase on the characters of an order id *)
LowerChar(c) ==
    CASE c = "P" -> "p" [] c = "R" -> "r" [] c = "E" -> "e"
      [] c = "W" -> "w" [] c = "H" -> "h" [] c = "O" -> "o"
      [] OTHER -> c

LowerChars(text) == [k \in 1..Len(text) |-> LowerChar(text[k])]

(* the character that encloses the order id in the description *)
Backtick == "[backtick]"

(* setDescription of createPreorderEmbed / createWholesaleEmbed; the fixed
   parts are single tokens *)
Description(type, orderId) ==
    <<"**Order ID:** ", Backtick>> \o orderId \o <<Backtick>>
      \o (IF type = "wholesale" THEN <<"\n**Kitchen:** ", "kitchen">> ELSE <<>>)

(* footerText of the embed: the event id only when there is one *)
FooterText(calendarEventId) ==
    <<"Submitted by ", "submittedBy">>
      \o (IF calendarEventId # Null THEN <<" | cal:", calendarEventId>> ELSE <<>>)

(* description.match(/`((?:pre|who)\d+)`/i): the text between the backticks *)
OrderMatch(description) ==
    LET close == CHOOSE k \in 3..Len(description) : description[k] = Backtick
    IN  SubSeq(description, 3, close - 1)

(* footer.text.match(/cal:([a-zA-Z0-9_-]+)/): the event id, null without one *)
CalMatch(footer) ==
    IF \E k \in 1..(Len(footer) - 1) : footer[k] = " | cal:"
    THEN footer[(CHOOSE k \in 1..(Len(footer) - 1) : footer[k] = " | cal:") + 1]
    ELSE Null

(* createCalendarEvent: null without a calendar client or when the insert
   fails, else the id of the event the calendar now holds; result is a
   sequence of length 0 (null) or 1 *)
createCalendarEvent(o, orderType, orderId, parsedDate, insertOk) ==
    IF ~o.enabled THEN [orders |-> o, result |-> <<>>]
    ELSE IF ~insertOk THEN [orders |-> o, result |-> <<>>]
    ELSE LET eventId == EventIds[o.serial]
         IN  [orders |-> [o EXCEPT !.calendar =
                             @ \cup {[eventId |-> eventId, orderId |-> orderId]}],
              result |-> <<[eventId |-> eventId]>>]

(* deleteCalendarEvent: false without a client or an id or when the delete
   fails *)
deleteCalendarEvent(o, eventId, deleteOk) ==
    IF ~o.enabled \/ eventId = Null THEN [orders |-> o, result |-> FALSE]
    ELSE IF ~deleteOk THEN [orders |-> o, result |-> FALSE]
    ELSE [orders |-> [o EXCEPT !.calendar = {e \in @ : e.eventId # eventId}],
          result |-> TRUE]

(* a preorder or wholesale form is submitted (the preorder branch of
   interactionCreate and submitWholesaleOrder have the same steps): the id,
   the calendar event first, then the message to the output channel.
   sendOk: fetching the output channel and sending to it succeed *)
SubmitOrder(type, parsedDate, insertOk, sendOk) ==
    /\ orders.variant = "index"
    /\ Len(orders.issued) < MaxSubmits
    /\ (~(orders.enabled /\ parsedDate # Null)) => insertOk
    /\ LET g   == generateOrderId(orders, type, now)
           o1  == [g.orders EXCEPT !.issued =
                      Append(@, [type |-> type, id |-> g.id, num |-> g.num,
                                 at |-> now])]
           cal == IF o1.enabled /\ parsedDate # Null
                  THEN createCalendarEvent(o1, type, g.id, parsedDate, insertOk)
                  ELSE [orders |-> o1, result |-> <<>>]
           calendarEventId == IF cal.result = <<>> THEN Null
                              ELSE cal.result[1].eventId
           msg == [id          |-> o1.serial,
                   description |-> Description(type, g.id),
                   footer      |-> FooterText(calendarEventId)]
           o2  == IF sendOk
                  THEN [cal.orders EXCEPT !.output[type] = Append(@, msg)]
                  ELSE cal.orders
       IN  /\ orders' = [o2 EXCEPT !.serial = @ + 1]
           /\ last' = [op |-> "submit", type |-> type, orderId |-> g.id,
                       posted |-> sendOk, event |-> cal.result]
    /\ UNCHANGED <<version, invFile, pendFile, inflight, now, processed>>

(* messages.find(...) over channel.messages.fetch({limit: 100}), which lists
   the newest message first: the newest message whose description includes
   the text, as a sequence of length 0 or 1 *)
FindOrderMessage(channel, orderId) ==
    LET hits == {k \in 1..Len(channel) : Includes(channel[k].description, orderId)}
    IN  IF hits = {} THEN <<>>
        ELSE <<channel[CHOOSE k \in hits : \A k2 \in hits : k2 <= k]>>

(* /delete order_id: the channel is chosen by the prefix, the message is
   searched, and a confirm button carrying the message id is shown *)
DeleteCommand(input, fetchOk) ==
    /\ orders.variant = "index"
    /\ orders.deletes < MaxDeletes
    /\ LET orderId == LowerChars(input)
           type    == IF StartsWith(orderId, <<"p", "r", "e">>) THEN "preorder"
                      ELSE IF StartsWith(orderId, <<"w", "h", "o">>) THEN "wholesale"
                      ELSE "none"
           found   == IF type = "none" \/ ~fetchOk THEN <<>>
                      ELSE FindOrderMessage(orders.output[type], orderId)
       IN  /\ orders' = [orders EXCEPT
                            !.deletes = @ + 1,
                            !.buttons = IF found = <<>> THEN @
                                        ELSE Append(@, found[1].id)]
           /\ last' = [op |-> "delete", orderId |-> orderId,
                       outcome |-> IF type = "none" THEN "invalid"
                                   ELSE IF ~fetchOk THEN "error"
                                   ELSE IF found = <<>> THEN "not found"
                                   ELSE "confirm",
                       selected |-> found]
    /\ UNCHANGED <<version, invFile, pendFile, inflight, now, processed>>

(* the delete_cancel button *)
DeleteCancel(b) ==
    /\ b \in 1..Len(orders.buttons)
    /\ orders' = [orders EXCEPT !.buttons =
                     [k \in 1..(Len(@) - 1) |-> IF k < b THEN @[k] ELSE @[k + 1]]]
    /\ last' = [op |-> "cancel"]
    /\ UNCHANGED <<version, invFile, pendFile, inflight, now, processed>>

(* one try block of the delete_confirm button on one output channel: the
   message is fetched (throws when it is not there), the order id and the
   event id are read from it, and then it is deleted (throws when !deleteOk) *)
TryDelete(o, type, messageId, calendarEventId, deleteOk) ==
    LET hits == {k \in 1..Len(o.output[type]) : o.output[type][k].id = messageId}
    IN  IF hits = {}
        THEN [orders |-> o, deleted |-> FALSE, calendarEventId |-> calendarEventId]
        ELSE
          LET k        == CHOOSE k \in hits : TRUE
              msg      == o.output[type][k]
              calMatch == CalMatch(msg.footer)
              eventId  == IF calMatch # Null THEN calMatch ELSE calendarEventId
          IN  IF ~deleteOk
              THEN [orders |-> o, deleted |-> FALSE, calendarEventId |-> eventId]
              ELSE [orders |-> [o EXCEPT !.output[type] =
                                   SelectSeq(@, LAMBDA m : m.id # messageId)],
                    deleted |-> TRUE, calendarEventId |-> eventId]

(* the delete_confirm_<messageId> button: the preorder channel is tried, then
   the wholesale channel, then the calendar event is deleted when an event id
   was read *)
DeleteConfirm(b, deleteOk, calDeleteOk) ==
    /\ b \in 1..Len(orders.buttons)
    /\ LET messageId == orders.buttons[b]
           o0 == [orders EXCEPT !.buttons =
                     [k \in 1..(Len(@) - 1) |-> IF k < b THEN @[k] ELSE @[k + 1]]]
           t1 == TryDelete(o0, "preorder", messageId, Null, deleteOk)
           t2 == IF t1.deleted THEN t1
                 ELSE TryDelete(t1.orders, "wholesale", messageId,
                                t1.calendarEventId, deleteOk)
           c  == IF t2.calendarEventId # Null
                 THEN deleteCalendarEvent(t2.orders, t2.calendarEventId, calDeleteOk)
                 ELSE [orders |-> t2.orders, result |-> FALSE]
       IN  /\ (t2.calendarEventId = Null \/ ~orders.enabled) => calDeleteOk
           /\ orders' = c.orders
           /\ last' = [op |-> "confirm", messageId |-> messageId,
                       deleted |-> t2.deleted,
                       calendarEventId |-> t2.calendarEventId,
                       calendarDeleted |-> c.result]
    /\ UNCHANGED <<version, invFile, pendFile, inflight, now, processed>>

----------------------------------------------------------------------------
(* What the oracle can return.  An absent `updates` / `clarifications`
   array is the empty one (both skip the loop); an absent reminder is
   NoReminder.  Failed is null: no client, a network error, no JSON. *)

Failed == [ok |-> FALSE]

Intent(intent, updates, clarifications, reminder, reply) ==
    [ok |-> TRUE, intent |-> intent, updates |-> updates,
     clarifications |-> clarifications, reminder |-> reminder, reply |-> reply]

Upd(item, status, fields) ==
    [item |-> item, status |-> status, qty |-> fields[1], unit |-> fields[2],
     note |-> fields[3]]

NoFields   == <<Null, Null, Null>>
NoReminder == [text |-> Undef, when |-> Undef]

(* clarifications the oracle proposes *)
CupsClarification ==
    [raw |-> "cups", options |-> ITEM_ALIASES.cups, question |-> "Which cups?"]

SugarClarification ==
    [raw |-> "sugar", options |-> <<"Sugar brown", "Sugar white">>,
     question |-> "Brown or white sugar?"]

(* a reminder of the oracle output; only text and when are read *)
Reminder(text, when) == [text |-> text, when |-> when]

(* target statuses: the three of the prompt and one the prompt does not allow *)
OracleStatuses == {"stocked", "low", "out", "restock"}

(* qty / unit / note of one update; Undef is a key the oracle left out *)
OracleFields ==
    {NoFields, <<"2", "bags", Undef>>, <<"5", Null, Null>>, <<Null, Null, "ask supplier">>}

ItemUpdateLists ==
    {<<Upd("Milk", s, f)>> : s \in OracleStatuses, f \in OracleFields}
      \cup {<<Upd("large to go cups", "low", NoFields)>>,
            <<Upd("croissant", "out", NoFields)>>,
            <<Upd("oat", "low", NoFields)>>,
            <<Upd("fruits", "out", NoFields)>>,
            <<Upd("MILK", "low", <<"2", "bags", Undef>>), Upd("Milk", "stocked", NoFields)>>,
            <<Upd("croissant", "low", NoFields), Upd("Milk", "out", NoFields)>>,
            <<Upd("Milk", "low", NoFields), Upd(Undef, "out", NoFields),
              Upd("large to go cups", "out", NoFields)>>}

ItemOutputs ==
    {Intent("update", u, <<>>, NoReminder, "") : u \in ItemUpdateLists}
      \cup {Intent("update", <<Upd("Milk", "low", NoFields)>>, <<>>, NoReminder, "Got it"),
            Intent("update", <<Upd("croissant", "low", NoFields)>>, <<>>, NoReminder,
                   "Got it"),
            Intent("chat", <<Upd("Milk", "low", NoFields)>>, <<CupsClarification>>,
                   NoReminder, ""),
            Intent("status", <<Upd("Milk", "low", NoFields)>>, <<SugarClarification>>,
                   Reminder("check stock", "tonight"), ""),
            Intent("ignore", <<Upd("Milk", "low", NoFields)>>, <<>>, NoReminder,
                   "Hi there"),
            Failed}

V1Output(action, items) ==
    [ok |-> TRUE, action |-> action, items |-> items, message |-> "ok"]

V1Outputs ==
    {V1Output(a, i) : a \in {"restock", "low", "out", "chat"},
                      i \in {<<"Milk">>, <<"croissant", "large to go cups">>}}
      \cup {V1Output("out", <<"Milk", Undef, "large to go cups">>),
            V1Output("low", <<"croissant">>)}
      \cup {V1Output("status", <<"Milk">>), V1Output("ignore", <<"Milk">>),
            V1Output("unknown", <<"Milk">>), Failed}

FsInvOnly == [inv : BOOLEAN, pend : {TRUE}]
FsOk      == [inv : {TRUE}, pend : {TRUE}]

----------------------------------------------------------------------------
(* Specification: item updates, messages handled one at a time *)

InitDocs(inv) ==
    /\ version \in {"v1", "v2"}
    /\ invFile = inv
    /\ pendFile = EmptyPending
    /\ inflight = <<>>
    /\ now = 1
    /\ processed = 0
    /\ last = [op |-> "none"]
    /\ orders = OrdersAtStart("index", now)

Init == InitDocs(EmptyInventory)

Next ==
    \/ \E u \in {"u1"} : Receive(u, 1)
    \/ \E i \in 1..Len(inflight), p \in ItemOutputs, fs \in FsInvOnly : Respond(i, p, fs)
    \/ \E p \in V1Outputs, fs \in FsInvOnly : ProcessMessageV1(p, fs)

Spec == Init /\ [][Next]_vars

----------------------------------------------------------------------------
(* Specification: a long-running deployment.  The inventory is the one left
   by n earlier messages "Milk is stocked", handled at times 1..n. *)

RestockedInventory(v, n) ==
    LET before == IF n > 1 THEN [status |-> "stocked"] ELSE <<>>
        record == IF v = "v1"
                  THEN [status |-> "stocked", updatedAt |-> n]
                  ELSE NewItemRecord(before, "stocked", Null, Null, Null, n)
        entry(k) == IF v = "v1"
                    THEN [item |-> "Milk", action |-> "stocked", timestamp |-> k]
                    ELSE NewHistoryEntry("Milk", "stocked", Null, Null, k)
    IN  JsonInventory(
          [categories |-> Categories,
           items      |-> IF n = 0 THEN <<>> ELSE SetKey(<<>>, "Milk", record),
           history    |-> [k \in 1..n |-> entry(k)]])

HistoryUpdateLists ==
    {<<Upd("Milk", "low", NoFields)>>,
     <<Upd("croissant", "out", NoFields)>>,
     <<Upd("large to go cups", "out", NoFields), Upd("Milk", "stocked", NoFields)>>}

HistoryOutputs ==
    {Intent("update", u, <<>>, NoReminder, "") : u \in HistoryUpdateLists}
      \cup {Intent("status", <<>>, <<>>, NoReminder, ""), Failed}

HistoryV1Outputs ==
    {V1Output("low", <<"Milk">>), V1Output("out", <<"croissant">>),
     V1Output("restock", <<"large to go cups", "Milk">>), V1Output("status", <<>>)}

InitHistory ==
    /\ version \in {"v1", "v2"}
    /\ \E n \in {HISTORY_LIMIT - 1, HISTORY_LIMIT} :
          /\ invFile = RestockedInventory(version, n)
          /\ now = n + 1
    /\ pendFile = EmptyPending
    /\ inflight = <<>>
    /\ processed = 0
    /\ last = [op |-> "none"]
    /\ orders = OrdersAtStart("index", now)

NextHistory ==
    \/ \E u \in {"u1"} : Receive(u, 1)
    \/ \E i \in 1..Len(inflight), p \in HistoryOutputs, fs \in FsInvOnly : Respond(i, p, fs)
    \/ \E p \in HistoryV1Outputs, fs \in FsInvOnly : ProcessMessageV1(p, fs)

SpecHistory == InitHistory /\ [][NextHistory]_vars

----------------------------------------------------------------------------
(* Specification: the clarification protocol, two requesters *)

ClarifyUpdateLists ==
    {<<>>,
     <<Upd("cups", "low", NoFields)>>,
     <<Upd("large to go cups", "low", NoFields)>>,
     <<Upd("Milk", "out", NoFields)>>,
     <<Upd("croissant", "out", NoFields)>>,
     <<Upd(Undef, "low", NoFields), Upd("Milk", "out", NoFields)>>}

ClarifyOutputs ==
    {Intent("update", u, c, NoReminder, r) :
        u \in ClarifyUpdateLists,
        c \in {<<>>, <<CupsClarification>>, <<SugarClarification>>},
        r \in {"", "Got it", "Which cups?"}}
      \cup {Intent("status", <<Upd("Milk", "out", NoFields)>>, <<>>, NoReminder, ""),
            Intent("status", <<>>, <<CupsClarification>>, NoReminder, "Which cups?"),
            Intent("ignore", <<Upd("Milk", "out", NoFields)>>, <<>>, NoReminder, ""),
            Intent("question", <<>>, <<CupsClarification, SugarClarification>>,
                   NoReminder, ""),
            Failed}

FsPendOnly == [inv : {TRUE}, pend : BOOLEAN]

InitClarify ==
    /\ version = "v2"
    /\ invFile = EmptyInventory
    /\ pendFile = EmptyPending
    /\ inflight = <<>>
    /\ now = 1
    /\ processed = 0
    /\ last = [op |-> "none"]
    /\ orders = OrdersAtStart("index", now)

NextClarify ==
    \/ \E u \in Users : Receive(u, 1)
    \/ \E i \in 1..Len(inflight), p \in ClarifyOutputs, fs \in FsPendOnly : Respond(i, p, fs)

SpecClarify == InitClarify /\ [][NextClarify]_vars

----------------------------------------------------------------------------
(* Specification: reminders and due-checks.  The clock starts at 19:00 of
   the first day; ClockTimes are the times the clock is looked at again:
   20:00 of the first day, 18:00 to 20:00 of the second. *)

ClockStart == 19
ClockTimes == {20, 42, 43, 44}

ReminderOutputs ==
    {Intent("reminder", <<>>, <<>>, Reminder("check stock", w), "Will do") :
        w \in {"tonight", "tomorrow", "friday 3pm", Undef}}
      \cup {Intent("chat", <<Upd("Milk", "low", NoFields)>>, <<>>,
                   Reminder("", "tonight"), ""),
            Intent("status", <<>>, <<>>, Reminder("check stock", "tomorrow"), ""),
            Failed}

InitReminders ==
    /\ version = "v2"
    /\ invFile = EmptyInventory
    /\ pendFile = EmptyPending
    /\ inflight = <<>>
    /\ now = ClockStart
    /\ processed = 0
    /\ last = [op |-> "none"]
    /\ orders = OrdersAtStart("index", now)

NextReminders ==
    \/ \E u \in {"u1"} : Receive(u, 1)
    \/ \E i \in 1..Len(inflight), p \in ReminderOutputs, fs \in FsPendOnly :
          Respond(i, p, fs)
    \/ \E t \in ClockTimes : Tick(t)
    \/ DueCheck

SpecReminders == InitReminders /\ [][NextReminders]_vars

----------------------------------------------------------------------------
(* Specification: concurrent intake.  Up to MaxInflight messages of two
   requesters wait for the oracle at the same time and the oracle answers
   them in any order. *)

MaxInflight == 2

ConcurrentOutputs ==
    {Intent("update", <<Upd("Milk", "low", NoFields)>>, <<>>, NoReminder, ""),
     Intent("update", <<Upd("Oat milk", "out", <<"2", "bags", Undef>>),
                        Upd("croissant", "out", NoFields)>>, <<>>, NoReminder, ""),
     Intent("chat", <<Upd("Milk", "stocked", NoFields)>>, <<CupsClarification>>,
            NoReminder, ""),
     Intent("reminder", <<>>, <<>>, Reminder("check stock", "tonight"), "Will do"),
     Intent("status", <<>>, <<>>, NoReminder, "")}

NextConcurrent ==
    \/ \E u \in Users : Receive(u, MaxInflight)
    \/ \E i \in 1..Len(inflight), p \in ConcurrentOutputs, fs \in FsOk : Respond(i, p, fs)

SpecConcurrent == InitClarify /\ [][NextConcurrent]_vars

----------------------------------------------------------------------------
(* Specification: predictions.  The inventory is the one left by earlier
   restock / low / out messages of the v1 manager, the last of them ten days
   (240 hours) after the first; the clock is looked at again 8, 8.5, 9, 9.5
   and 10 days later. *)

Event(item, status, t) == [item |-> item, status |-> status, t |-> t]

(* the inventory after updateItemStatus was called for each event *)
RECURSIVE ReplayV1(_, _)
ReplayV1(file, events) ==
    IF events = <<>> THEN file
    ELSE ReplayV1(updateItemStatus(file, Head(events).item, Head(events).status,
                                   Head(events).t, TRUE).file,
                  Tail(events))

PredictEvents ==
    {<<>>,
     <<Event("Milk", "stocked", 0)>>,
     <<Event("Milk", "low", 0), Event("Milk", "out", 240)>>,
     <<Event("Milk", "stocked", 0), Event("Milk", "stocked", 240)>>,
     <<Event("Milk", "stocked", 0), Event("Oat milk", "stocked", 12),
       Event("Milk", "low", 100), Event("Milk", "stocked", 240)>>,
     <<Event("Milk", "stocked", 0), Event("Milk", "stocked", 36),
       Event("Milk", "out", 200), Event("Milk", "stocked", 240)>>,
     <<Event("Oat milk", "stocked", 0), Event("Milk", "stocked", 0),
       Event("Oat milk", "stocked", 48), Event("Milk", "stocked", 228)>>}

PredictStart      == 241
PredictClockTimes == {432, 444, 456, 468, 480}

PredictV1Outputs ==
    {V1Output("restock", <<"Milk">>), V1Output("restock", <<"Oat milk", "Milk">>),
     V1Output("low", <<"Milk">>)}

InitPredict ==
    /\ version = "v1"
    /\ \E events \in PredictEvents : invFile = ReplayV1(EmptyInventory, events)
    /\ pendFile = EmptyPending
    /\ inflight = <<>>
    /\ now = PredictStart
    /\ processed = 0
    /\ last = [op |-> "none"]
    /\ orders = OrdersAtStart("index", now)

NextPredict ==
    \/ \E p \in PredictV1Outputs, fs \in FsOk : ProcessMessageV1(p, fs)
    \/ \E t \in PredictClockTimes : Tick(t)
    \/ Predict

SpecPredict == InitPredict /\ [][NextPredict]_vars

----------------------------------------------------------------------------
(* Specification: the pending-actions store called directly.  Messages of
   two requesters create clarifications; resolveClarification is called for
   either requester at any time. *)

PendingOutputs ==
    {Intent("question", <<>>, <<CupsClarification>>, NoReminder, "Which cups?"),
     Intent("question", <<>>, <<SugarClarification>>, NoReminder, ""),
     Intent("update", <<Upd("Milk", "low", NoFields)>>, <<>>, NoReminder, "")}

NextPending ==
    \/ \E u \in Users : Receive(u, 1)
    \/ \E i \in 1..Len(inflight), p \in PendingOutputs, fs \in FsPendOnly :
          Respond(i, p, fs)
    \/ \E u \in Users, writeOk \in BOOLEAN : ResolveCall(u, writeOk)

SpecPending == InitClarify /\ [][NextPending]_vars

----------------------------------------------------------------------------
(* Specification: order ids across midnight.  Either file is running; the
   clock starts at 22:00 of day 0 (January 1) and moves on to later hours of
   day 0, of day 1 and of day 2, and to 10:00 of January 11 and of November 1,
   while order forms of both types are submitted. *)

OrderStart == 22

OrderClockTimes == {23, 24, 25, 47, 48, 250, 7306}

InitOrders ==
    /\ version = "v1"
    /\ invFile = EmptyInventory
    /\ pendFile = EmptyPending
    /\ inflight = <<>>
    /\ now = OrderStart
    /\ processed = 0
    /\ last = [op |-> "none"]
    /\ \E variant \in {"index", "part_002"} :
          orders = OrdersAtStart(variant, OrderStart)

NextOrders ==
    \/ \E type \in OrderTypes : GenerateOrderId(type)
    \/ \E t \in OrderClockTimes : Tick(t)

SpecOrders == InitOrders /\ [][NextOrders]_vars

----------------------------------------------------------------------------
(* Specification: the order flow of index.js, with or without a calendar.
   The clock starts at 10:00 of January 2 and is later looked at at 10:00 of
   January 21; orders are submitted, searched with /delete
   by the id of an issued order or by a text that is no id, and the buttons
   are clicked. *)

FlowStart == 34

FlowClockTimes == {490}

InitOrderFlow ==
    /\ version = "v1"
    /\ invFile = EmptyInventory
    /\ pendFile = EmptyPending
    /\ inflight = <<>>
    /\ now = FlowStart
    /\ processed = 0
    /\ last = [op |-> "none"]
    /\ \E enabled \in BOOLEAN :
          orders = [OrdersAtStart("index", FlowStart) EXCEPT !.enabled = enabled]

DeleteInputs ==
    {orders.issued[k].id : k \in 1..Len(orders.issued)} \cup {<<"x", "1">>}

NextOrderFlow ==
    \/ \E type \in OrderTypes, parsedDate \in ParsedDates, insertOk, sendOk \in BOOLEAN :
          SubmitOrder(type, parsedDate, insertOk, sendOk)
    \/ \E input \in DeleteInputs, fetchOk \in BOOLEAN : DeleteCommand(input, fetchOk)
    \/ \E b \in 1..Len(orders.buttons) : DeleteCancel(b)
    \/ \E b \in 1..Len(orders.buttons), deleteOk, calDeleteOk \in BOOLEAN :
          DeleteConfirm(b, deleteOk, calDeleteOk)
    \/ \E t \in FlowClockTimes : Tick(t)

SpecOrderFlow == InitOrderFlow /\ [][NextOrderFlow]_vars

----------------------------------------------------------------------------
(* Helpers of the properties *)

AllItems == getAllItemNames(EmptyInventory)

(* the catalog item an update phrase resolves to, Undef when none *)
Resolves(phrase) == FindItem(AllItems, phrase)

(* a reconciliation ran: the oracle answered, neither ignore nor status *)
Reconciled ==
    /\ last.op = "v2"
    /\ last.parsed.ok
    /\ last.parsed.intent \notin {"ignore", "status"}
    /\ ~last.out.threw

OptionalFields == {"qty", "unit", "note"}

----------------------------------------------------------------------------
(* C1: last write wins on status.  After a handler whose writes the store
   accepted, every item it updated has a record whose status is the target
   status of the last update applied to that item, whatever the statuses of
   the updates before it, in this message or in earlier ones. *)
C1_LastWriteWins ==
    (last.op = "v2" /\ last.fs.inv) =>
        \A k \in 1..Len(last.updatedItems) :
            LET u == last.updatedItems[k]
            IN  (\A j \in (k + 1)..Len(last.updatedItems) :
                     last.updatedItems[j].name # u.name)
                => /\ u.name \in DOMAIN invFile.items
                   /\ Get(invFile.items[u.name], "status") = u.status

(* C1 witness: the second message updated Milk twice, low then stocked, over
   a record an earlier message had written, and the record says stocked. *)
C1_Witness ==
    /\ Reconciled /\ last.fs.inv /\ processed = 2
    /\ Len(last.updatedItems) = 2
    /\ last.updatedItems[1] = [name |-> "Milk", status |-> "low"]
    /\ last.updatedItems[2] = [name |-> "Milk", status |-> "stocked"]
    /\ Len(invFile.history) = 3
    /\ invFile.history[1].action = "out"
    /\ invFile.items["Milk"].status = "stocked"

(* C2: partial update of quantity, unit and note.  For an item that has a
   record, a handler changes one of these fields only to a non-null value
   that an update of the message for that item supplied; a field for which
   the message supplied null or nothing keeps its value. *)
C2_PartialUpdate ==
    [][ \A n \in DOMAIN invFile.items : \A f \in OptionalFields :
          (n \in DOMAIN invFile'.items
             /\ Get(invFile'.items[n], f) # Get(invFile.items[n], f))
          => /\ last'.op = "v2"
             /\ last'.parsed.ok
             /\ \E k \in 1..Len(last'.parsed.updates) :
                   LET u == last'.parsed.updates[k]
                   IN  /\ Resolves(u.item) = n
                       /\ DefaultNull(u[f]) # Null
                       /\ Get(invFile'.items[n], f) = u[f] ]_vars

(* C2 witness: Milk had qty 2 / unit bags; the last message updated it with
   a note only, and the rewritten record still has qty 2 / unit bags. *)
C2_Witness ==
    /\ Reconciled /\ last.fs.inv /\ processed = 2
    /\ Len(last.parsed.updates) = 1
    /\ last.parsed.updates[1].item = "Milk"
    /\ last.parsed.updates[1].qty = Null
    /\ last.parsed.updates[1].note = "ask supplier"
    /\ "Milk" \in DOMAIN invFile.items
    /\ invFile.items["Milk"].lastUpdatedAt = now - 1
    /\ Get(invFile.items["Milk"], "qty") = "2"
    /\ Get(invFile.items["Milk"], "unit") = "bags"
    /\ Get(invFile.items["Milk"], "note") = "ask supplier"

(* C3: the persisted history never holds more than 500 entries. *)
C3_HistoryBounded == Len(invFile.history) <= HISTORY_LIMIT

(* C3 witness: the history is full and its oldest entry has been evicted
   (the entry written at time 1 is no longer the first). *)
C3_Witness ==
    /\ Len(invFile.history) = HISTORY_LIMIT
    /\ invFile.history[1].timestamp > 1
    /\ invFile.history[HISTORY_LIMIT].timestamp = now - 1

(* C4: eviction drops the oldest entries only.  When a handler whose writes
   succeed applies k updates to a history of 500 entries, the new history is
   the old entries k+1..500, unchanged and in order, followed by one entry
   per update (item = canonical name, action = target status), in order. *)
C4_OldestEvicted ==
    [][ (/\ Len(invFile.history) = HISTORY_LIMIT
         /\ processed' = processed + 1
         /\ last'.op = "v2"
         /\ last'.fs.inv
         /\ Len(last'.updatedItems) > 0)
        => LET k == Len(last'.updatedItems)
           IN  /\ Len(invFile'.history) = HISTORY_LIMIT
               /\ SubSeq(invFile'.history, 1, HISTORY_LIMIT - k)
                    = SubSeq(invFile.history, k + 1, HISTORY_LIMIT)
               /\ \A j \in 1..k :
                     LET e == invFile'.history[HISTORY_LIMIT - k + j]
                     IN  /\ e.item = last'.updatedItems[j].name
                         /\ e.action = last'.updatedItems[j].status
                         /\ e.timestamp = now ]_vars

(* C4 witness: one update was applied to a full history; the entry written
   at time 2 is now the oldest and the new entry is the newest. *)
C4_Witness ==
    /\ last.op = "v2" /\ last.fs.inv
    /\ Len(last.updatedItems) = 1
    /\ Len(invFile.history) = HISTORY_LIMIT
    /\ invFile.history[1].timestamp = 2
    /\ invFile.history[HISTORY_LIMIT - 1].timestamp = HISTORY_LIMIT
    /\ invFile.history[HISTORY_LIMIT].timestamp = HISTORY_LIMIT + 1
    /\ invFile.history[HISTORY_LIMIT].action = "low"

(* the pending clarifications of one requester *)
ClarificationsOf(userId) ==
    SelectSeq(pendFile.clarifications, LAMBDA c : c.userId = userId)

(* C5: at most one pending clarification per requester in every state, and
   a reconciliation that proposes a clarification (its write accepted)
   leaves the requester with exactly that one, written at this time. *)
C5_OnePerRequester ==
    /\ \A u \in Users : Len(ClarificationsOf(u)) <= 1
    /\ (Reconciled /\ last.fs.pend /\ Len(last.parsed.clarifications) > 0)
         => ClarificationsOf(last.userId) =
              <<[userId    |-> last.userId,
                 rawItem   |-> last.parsed.clarifications[1].raw,
                 options   |-> last.parsed.clarifications[1].options,
                 question  |-> last.parsed.clarifications[1].question,
                 createdAt |-> now - 1]>>

(* C5 witness: the requester had a clarification about sugar, the message
   carried no update and proposed one about cups, and only that one is left. *)
C5_Witness ==
    /\ Reconciled /\ last.fs.pend
    /\ last.pendingBefore # <<>>
    /\ last.pendingBefore[1].rawItem = "sugar"
    /\ last.parsed.updates = <<>>
    /\ last.parsed.clarifications = <<CupsClarification>>
    /\ Len(ClarificationsOf(last.userId)) = 1
    /\ ClarificationsOf(last.userId)[1].rawItem = "cups"

(* does the text contain the part q *)
TextContains(text, q) == \E i \in 1..Len(text) : text[i] = q

(* C6: a message whose only update names the ambiguous alias "cups" leaves a
   pending clarification with the four options of the alias table for the
   requester, updates no item, and its reply contains the question. *)
C6_AmbiguousAliasAsks ==
    (/\ Reconciled
     /\ last.fs.inv /\ last.fs.pend
     /\ Len(last.parsed.updates) = 1
     /\ ToLowerCase(last.parsed.updates[1].item) = "cups")
    => /\ last.updatedItems = <<>>
       /\ Len(ClarificationsOf(last.userId)) = 1
       /\ ClarificationsOf(last.userId)[1].options = ITEM_ALIASES.cups
       /\ last.out.sent
       /\ TextContains(last.out.text, ClarificationsOf(last.userId)[1].question)

(* C7 as claimed: whenever the requester had a pending clarification and the
   message carries an update for a catalog item, the requester has no pending
   clarification afterwards and the item is among the updated ones. *)
C7_AnyUpdateResolves ==
    (/\ last.op = "v2"
     /\ last.parsed.ok
     /\ last.fs.inv /\ last.fs.pend
     /\ last.pendingBefore # <<>>)
    => \A k \in 1..Len(last.parsed.updates) :
          Resolves(last.parsed.updates[k].item) # Undef
          => /\ ClarificationsOf(last.userId) = <<>>
             /\ \E j \in 1..Len(last.updatedItems) :
                   last.updatedItems[j].name = Resolves(last.parsed.updates[k].item)

(* C7 amended: when the requester had a pending clarification and a
   reconciled message (neither ignore nor status, writes accepted) carries an
   update for a catalog item, that clarification is gone afterwards and the
   item has the record this message wrote, whether or not the item was one of
   the options; the requester has a clarification afterwards only if this
   message proposed one. *)
C7_UpdateResolvesPending ==
    (/\ Reconciled
     /\ last.fs.inv /\ last.fs.pend
     /\ last.pendingBefore # <<>>)
    => \A k \in 1..Len(last.parsed.updates) :
          LET n == Resolves(last.parsed.updates[k].item)
          IN  n # Undef
              => /\ \A c \in 1..Len(pendFile.clarifications) :
                       pendFile.clarifications[c] # last.pendingBefore[1]
                 /\ (last.parsed.clarifications = <<>>
                       => ClarificationsOf(last.userId) = <<>>)
                 /\ n \in DOMAIN invFile.items
                 /\ invFile.items[n].status = last.parsed.updates[k].status
                 /\ invFile.items[n].lastUpdatedAt = now - 1
                 /\ \E j \in 1..Len(last.updatedItems) : last.updatedItems[j].name = n

(* C7 witness: the requester was asked which cups, answered with an update
   of Milk (not one of the four options); the question is gone, Milk is out. *)
C7_Witness ==
    /\ Reconciled /\ last.fs.inv /\ last.fs.pend
    /\ last.pendingBefore # <<>>
    /\ last.pendingBefore[1].rawItem = "cups"
    /\ last.parsed.updates = <<Upd("Milk", "out", NoFields)>>
    /\ ClarificationsOf(last.userId) = <<>>
    /\ invFile.items["Milk"].status = "out"

(* C8: a message that proposes no clarification and none of whose updates
   resolves to a catalog item leaves the requester's pending clarification
   in place. *)
C8_UnresolvedKeepsPending ==
    (/\ last.op = "v2"
     /\ last.parsed.ok
     /\ last.pendingBefore # <<>>
     /\ last.parsed.clarifications = <<>>
     /\ \A k \in 1..Len(last.parsed.updates) :
           Resolves(last.parsed.updates[k].item) = Undef)
    => ClarificationsOf(last.userId) = last.pendingBefore

(* the reply confirms an update: it is the confirmation text *)
ConfirmsUpdate(out) == out.sent /\ TextContains(out.text, " Got it! Updated: ")

(* C9: when the saves of the inventory fail during a handler, no item is
   reported as updated and the reply confirms no update. *)
C9_SaveFailureReported ==
    (last.op = "v2" /\ ~last.fs.inv)
    => /\ last.updatedItems = <<>>
       /\ ~ConfirmsUpdate(last.out)

(* C10: every record of items has one of the statuses stocked, low, out. *)
C10_StatusEnumerated ==
    \A n \in DOMAIN invFile.items :
        Get(invFile.items[n], "status") \in {"stocked", "low", "out"}

(* a message handler has just returned *)
Handled == last.op \in {"v1", "v2"}

(* the oracle classified the last message as c *)
ClassifiedAs(l, c) ==
    /\ l.parsed.ok
    /\ \/ l.op = "v2" /\ l.parsed.intent = c
       \/ l.op = "v1" /\ l.parsed.action = c

(* C11: when the oracle gives no usable output (no client, a failed call,
   text that is not JSON), handling the message leaves inventory.json and
   pending.json exactly as they were. *)
C11_OracleFailureChangesNothing ==
    [][ (processed' = processed + 1 /\ ~last'.parsed.ok)
        => (invFile' = invFile /\ pendFile' = pendFile) ]_vars

(* C11 witness: the oracle failed on a message of a requester who had a
   pending clarification, with Milk on record; all of it is still there. *)
C11_Witness ==
    /\ last.op = "v2" /\ ~last.parsed.ok
    /\ last.pendingBefore # <<>>
    /\ ClarificationsOf(last.userId) = last.pendingBefore
    /\ "Milk" \in DOMAIN invFile.items
    /\ Len(invFile.history) = 1

(* C12: a message the oracle classifies as ignore, or for which the oracle
   gives no usable output, gets the no-reply value, never a text. *)
C12_IgnoredGetsNoReply ==
    (Handled /\ (~last.parsed.ok \/ ClassifiedAs(last, "ignore")))
    => last.out = NoReply

(* C12 witness: the oracle said ignore and supplied a reply text; nothing
   was returned. *)
C12_Witness ==
    /\ last.op = "v2"
    /\ ClassifiedAs(last, "ignore")
    /\ last.parsed.reply = "Hi there"
    /\ last.out = NoReply

(* C13: a message classified as status returns the snapshot rendered from
   the inventory as it was and changes neither document, whatever updates,
   clarifications or reminder the intent carries and whether or not the
   requester has a pending clarification. *)
C13_StatusBypassesReconciliation ==
    [][ (processed' = processed + 1 /\ ClassifiedAs(last', "status"))
        => /\ invFile' = invFile
           /\ pendFile' = pendFile
           /\ last'.out.sent
           /\ last'.out.text = IF last'.op = "v2" THEN formatStatusMessage(invFile)
                                ELSE formatStatusMessageV1(invFile) ]_vars

(* C13 witness: a status intent carrying an update, a clarification and a
   reminder, from a requester with a pending clarification about cups; the
   clarification is the same, no reminder is stored, Milk is still low. *)
C13_Witness ==
    /\ last.op = "v2"
    /\ ClassifiedAs(last, "status")
    /\ Len(last.parsed.updates) > 0
    /\ Len(last.parsed.clarifications) > 0
    /\ Truthy(last.parsed.reminder.text)
    /\ last.pendingBefore # <<>>
    /\ last.pendingBefore[1].rawItem = "cups"
    /\ ClarificationsOf(last.userId) = last.pendingBefore
    /\ pendFile.reminders = <<>>
    /\ Len(invFile.history) = 1
    /\ last.out.sent

(* the phrases of the updates of the last message *)
PhrasesOf(l) ==
    IF l.op = "v2"
    THEN [k \in 1..Len(l.parsed.updates) |-> l.parsed.updates[k].item]
    ELSE l.parsed.items

(* C14: when some phrases of the updates resolve and some do not, every
   resolvable item has the record this message wrote, every unresolvable
   phrase is in the failed-items list, and the reply names each phrase that
   could not be found. *)
C14_PartialFailureReported ==
    (/\ Reconciled /\ last.fs.inv
     /\ \E k \in 1..Len(last.parsed.updates) : Resolves(PhrasesOf(last)[k]) # Undef
     /\ \E k \in 1..Len(last.parsed.updates) : Resolves(PhrasesOf(last)[k]) = Undef)
    => \A k \in 1..Len(last.parsed.updates) :
          LET phrase == PhrasesOf(last)[k]
              n      == Resolves(phrase)
          IN  IF n # Undef
              THEN /\ n \in DOMAIN invFile.items
                   /\ invFile.items[n].lastUpdatedAt = now - 1
              ELSE /\ \E j \in 1..Len(last.failedItems) : last.failedItems[j] = phrase
                   /\ last.out.sent
                   /\ TextContains(last.out.text, phrase)

(* C15: when the message carries at least one update and no phrase resolves,
   the caller gets an outcome of its own -- a reply, not the no-reply value of
   an ignored message -- and that reply confirms no update. *)
C15_AllFailedIsDistinct ==
    (/\ Handled
     /\ last.parsed.ok
     /\ ~last.out.threw
     /\ ~(\E c \in {"ignore", "unknown", "status"} : ClassifiedAs(last, c))
     /\ Len(PhrasesOf(last)) > 0
     /\ \A k \in 1..Len(PhrasesOf(last)) : Resolves(PhrasesOf(last)[k]) = Undef)
    => /\ last.out.sent
       /\ ~ConfirmsUpdate(last.out)

(* the alias table entry of a phrase, <<>> when it has none *)
AliasOf(phrase) ==
    IF ToLowerCase(phrase) \in DOMAIN ITEM_ALIASES
    THEN ITEM_ALIASES[ToLowerCase(phrase)] ELSE <<>>

(* the item n has the record and the history entry an update to status s
   at the time of the last handler leaves *)
UpdatedTo(n, s) ==
    /\ n \in DOMAIN invFile.items
    /\ Get(invFile.items[n], "status") = s
    /\ \E h \in 1..Len(invFile.history) :
          /\ invFile.history[h].item = n
          /\ invFile.history[h].action = s
          /\ invFile.history[h].timestamp = now - 1

(* C16: an update whose phrase is an alias of exactly one canonical name
   ("oat" for "Oat milk") is applied to that item: its record has the target
   status and the history has an entry for the canonical name. *)
C16_UnambiguousAliasApplied ==
    (Reconciled /\ last.fs.inv)
    => \A k \in 1..Len(last.parsed.updates) :
          LET u == last.parsed.updates[k]
          IN  (u.item = "oat" /\ Len(AliasOf(u.item)) = 1)
              => UpdatedTo(AliasOf(u.item)[1], u.status)

(* C17: an update whose phrase is the group alias "fruits" is applied to
   every canonical item of the group. *)
C17_GroupAliasExpanded ==
    (Reconciled /\ last.fs.inv)
    => \A k \in 1..Len(last.parsed.updates) :
          LET u == last.parsed.updates[k]
          IN  u.item = "fruits"
              => \A i \in 1..Len(AliasOf(u.item)) :
                    UpdatedTo(AliasOf(u.item)[i], u.status)

(* the canonical item names of the catalog *)
CanonicalNames == {AllItems[i] : i \in 1..Len(AllItems)}

(* C18: the catalog never changes: categories keeps its initial value, and
   every key of items and every item of a history entry is a canonical name. *)
C18_CatalogFixed ==
    /\ invFile.categories = Categories
    /\ DOMAIN invFile.items \subseteq CanonicalNames
    /\ \A h \in 1..Len(invFile.history) : invFile.history[h].item \in CanonicalNames

(* C18 witness: a message named "croissant", which is not in the catalog,
   and Milk; Milk is the only record and the only history entry. *)
C18_Witness ==
    /\ last.op = "v2" /\ last.fs.inv
    /\ last.failedItems = <<"croissant">>
    /\ Len(last.updatedItems) = 1
    /\ DOMAIN invFile.items = {"Milk"}
    /\ Len(invFile.history) = 1
    /\ invFile.history[1].item = "Milk"

(* the reminders a sequence holds *)
Range(seq) == {seq[i] : i \in 1..Len(seq)}

(* C19: a reminder a due-check returned is marked resolved afterwards, and
   the next due-check does not return it again. *)
C19_DueReminderResolved ==
    last.op = "due"
    => /\ \A i \in 1..Len(pendFile.reminders) :
             (\E d \in 1..Len(last.due) :
                 /\ last.due[d].userId = pendFile.reminders[i].userId
                 /\ last.due[d].createdAt = pendFile.reminders[i].createdAt)
             => pendFile.reminders[i].resolved
       /\ Range(last.due) \cap Range(last.before) = {}

(* C20: a due-check returns, in their stored order, exactly the unresolved
   reminders that are for tonight while the local hour is 20 or later, or for
   tomorrow when a full day has passed since they were created; a reminder
   with any other `when` is not returned. *)
C20_DueExactly ==
    last.op = "due"
    => /\ last.due = SelectSeq(pendFile.reminders, LAMBDA r : r \in Range(last.due))
       /\ \A r \in Range(pendFile.reminders) :
             r \in Range(last.due)
             <=> /\ r.resolved = FALSE
                 /\ \/ /\ Get(r, "when") = "tonight"
                       /\ last.at % HOURS_PER_DAY >= TONIGHT_HOUR
                    \/ /\ Get(r, "when") = "tomorrow"
                       /\ last.at >= r.createdAt + HOURS_PER_DAY

(* C20 witness: at 19:00 of the second day a reminder for tomorrow stored
   at 19:00 of the first day is due; the one for tonight stored an hour after
   it is not. *)
C20_Witness ==
    /\ last.op = "due"
    /\ Len(pendFile.reminders) = 2
    /\ Get(pendFile.reminders[1], "when") = "tomorrow"
    /\ Get(pendFile.reminders[2], "when") = "tonight"
    /\ last.at = pendFile.reminders[1].createdAt + HOURS_PER_DAY
    /\ last.due = <<pendFile.reminders[1]>>

(* the pending clarification addPendingClarification stores for a proposed
   clarification c of the last message *)
StoredFor(c) ==
    [userId |-> last.userId, rawItem |-> c.raw, options |-> c.options,
     question |-> c.question, createdAt |-> now - 1]

(* C21: every proposed clarification is applied by create/replace, in
   order: after a message that proposes clarifications, the requester's one
   pending clarification is the last one proposed. *)
C21_LastProposedIsPending ==
    (Reconciled /\ last.fs.pend /\ Len(last.parsed.clarifications) > 0)
    => ClarificationsOf(last.userId) =
         <<StoredFor(last.parsed.clarifications[Len(last.parsed.clarifications)])>>

(* the history entries one reconciliation appends, as (item, action, time) *)
EntryKey(e) == <<e.item, e.action, e.timestamp>>

(* C22: reconciliations are serialized.  Each reconciliation works on the
   documents as the reconciliations completed before it left them, however
   the messages interleaved at the oracle call: the history afterwards is the
   history before it followed by one entry per update it applied, the records
   of the items it did not update are untouched, the reminders before it are
   kept in order, and the clarifications of the other requesters are kept. *)
C22_ReconciliationsSerialized ==
    [][ (/\ processed' = processed + 1
         /\ last'.op = "v2"
         /\ last'.parsed.ok
         /\ last'.parsed.intent \notin {"ignore", "status"}
         /\ ~last'.out.threw)
        => LET k == Len(last'.updatedItems)
               n == Len(invFile.history)
           IN  /\ Len(invFile'.history) = n + k
               /\ SubSeq(invFile'.history, 1, n) = invFile.history
               /\ \A j \in 1..k :
                     EntryKey(invFile'.history[n + j])
                       = <<last'.updatedItems[j].name, last'.updatedItems[j].status, now>>
               /\ \A item \in DOMAIN invFile.items :
                     /\ item \in DOMAIN invFile'.items
                     /\ (\A j \in 1..k : last'.updatedItems[j].name # item)
                          => invFile'.items[item] = invFile.items[item]
               /\ Len(pendFile'.reminders) >= Len(pendFile.reminders)
               /\ SubSeq(pendFile'.reminders, 1, Len(pendFile.reminders))
                     = pendFile.reminders
               /\ SelectSeq(pendFile'.clarifications,
                            LAMBDA c : c.userId # last'.userId)
                     = SelectSeq(pendFile.clarifications,
                                 LAMBDA c : c.userId # last'.userId) ]_vars

(* C22 witness: two messages waited for the oracle at the same time -- the
   one handled last had loaded an inventory with no history and had seen no
   pending clarification -- and the updates of both are on record. *)
C22_Witness ==
    /\ Reconciled /\ processed = 2
    /\ last.inventory.history = <<>>
    /\ last.context = <<>>
    /\ last.pendingBefore # <<>>
    /\ Len(last.updatedItems) = 1
    /\ last.updatedItems[1].name = "Oat milk"
    /\ Len(invFile.history) = 2
    /\ invFile.history[1].item = "Milk"
    /\ invFile.history[2].item = "Oat milk"
    /\ DOMAIN invFile.items = {"Milk", "Oat milk"}

(* the snapshot of the inventory as it is now *)
Snapshot == getInventoryStatus(invFile)

SnapshotLists == {"out", "low", "stocked", "unknown"}

(* the places (list, position) where the snapshot holds the item *)
PlacesOf(item) ==
    {<<l, i>> \in SnapshotLists \X (1..Len(AllItems)) :
        i <= Len(Snapshot[l]) /\ Snapshot[l][i] = item}

(* C23: the snapshot holds every canonical item exactly once over its four
   lists and nothing else: in unknown when the item has no record, in the
   list named by the status of its record when it has one. *)
C23_SnapshotPartitions ==
    /\ \A l \in SnapshotLists : Range(Snapshot[l]) \subseteq CanonicalNames
    /\ \A item \in CanonicalNames :
          /\ Cardinality(PlacesOf(item)) = 1
          /\ item \notin DOMAIN invFile.items => item \in Range(Snapshot.unknown)
          /\ item \in DOMAIN invFile.items
               => /\ item \notin Range(Snapshot.unknown)
                  /\ \A st \in {"out", "low", "stocked"} :
                        Get(invFile.items[item], "status") = st
                        => item \in Range(Snapshot[st])

(* C23 witness: a status request was answered while Milk was low; Milk is
   in the low list and the other ten items are unknown. *)
C23_Witness ==
    /\ Handled /\ ClassifiedAs(last, "status") /\ last.out.sent
    /\ Snapshot.low = <<"Milk">>
    /\ Snapshot.stocked = <<>>
    /\ Snapshot.out = <<>>
    /\ Len(Snapshot.unknown) = Len(AllItems) - 1
    /\ "Milk" \notin Range(Snapshot.unknown)

(* the stocked history entries of an item, by position *)
StockedEntries(item) ==
    {i \in 1..Len(invFile.history) :
        /\ invFile.history[i].item = item
        /\ Get(invFile.history[i], "action") = "stocked"}

StockedTimes(item) == {invFile.history[i].timestamp : i \in StockedEntries(item)}

LatestOf(times)   == CHOOSE t \in times : \A u \in times : u <= t
EarliestOf(times) == CHOOSE t \in times : \A u \in times : t <= u

(* the integer nearest to hours / (24 * parts) days, halves up *)
NearestDays(hours, parts) ==
    CHOOSE d \in 0..(hours \div HOURS_PER_DAY + 1) :
        /\ HOURS_PER_DAY * parts * (2 * d - 1) <= 2 * hours
        /\ 2 * hours < HOURS_PER_DAY * parts * (2 * d + 1)

(* the consecutive gaps between the sorted stocked timestamps add up to the
   time from the earliest to the latest; their mean, rounded, in days *)
AvgIntervalDays(item) ==
    NearestDays(LatestOf(StockedTimes(item)) - EarliestOf(StockedTimes(item)),
                Cardinality(StockedEntries(item)) - 1)

(* rounded days from the latest stocked timestamp to the time of the call *)
DaysSinceLastRestock(item) ==
    NearestDays(last.at - LatestOf(StockedTimes(item)), 1)

PredictedItems == {last.predictions[k].item : k \in 1..Len(last.predictions)}

(* C24: predict returns no item that has fewer than 2 stocked history
   entries. *)
C24_NeedsTwoRestocks ==
    last.op = "predict"
    => \A k \in 1..Len(last.predictions) :
          Cardinality(StockedEntries(last.predictions[k].item)) >= 2

(* C24 witness: Oat milk was restocked once, ten days and more ago, Milk
   twice; the prediction names Milk only. *)
C24_Witness ==
    /\ last.op = "predict"
    /\ Cardinality(StockedEntries("Oat milk")) = 1
    /\ last.at - LatestOf(StockedTimes("Oat milk")) > 10 * HOURS_PER_DAY
    /\ PredictedItems = {"Milk"}

(* C25: an item with at least 2 stocked entries is returned, once, if and
   only if daysSinceLastRestock >= avgIntervalDays - 1, and the entry
   carries these two numbers. *)
C25_IncludedIffDueSoon ==
    last.op = "predict"
    => \A item \in CanonicalNames :
          Cardinality(StockedEntries(item)) >= 2
          => /\ item \in PredictedItems
                  <=> DaysSinceLastRestock(item) >= AvgIntervalDays(item) - 1
             /\ \A k \in 1..Len(last.predictions) :
                   last.predictions[k].item = item
                   => /\ last.predictions[k].avgDays = AvgIntervalDays(item)
                      /\ last.predictions[k].daysSinceRestock
                            = DaysSinceLastRestock(item)
                      /\ \A j \in 1..Len(last.predictions) :
                            last.predictions[j].item = item => j = k

(* C25 witness: Milk was restocked at day 0 and day 10 (average interval
   10 days); 8 days after the second restock it is not returned. *)
C25_Witness ==
    /\ last.op = "predict"
    /\ Cardinality(StockedEntries("Milk")) = 2
    /\ AvgIntervalDays("Milk") = 10
    /\ DaysSinceLastRestock("Milk") = 8
    /\ "Milk" \notin PredictedItems

(* C26: a returned entry is urgent if and only if its daysSinceLastRestock
   is at least its avgIntervalDays, and an item that is one day short of its
   average interval is returned, not urgent. *)
C26_UrgentIffDue ==
    last.op = "predict"
    => /\ \A k \in 1..Len(last.predictions) :
             last.predictions[k].urgent
               <=> DaysSinceLastRestock(last.predictions[k].item)
                     >= AvgIntervalDays(last.predictions[k].item)
       /\ \A item \in CanonicalNames :
             (/\ Cardinality(StockedEntries(item)) >= 2
              /\ DaysSinceLastRestock(item) = AvgIntervalDays(item) - 1)
             => \E k \in 1..Len(last.predictions) :
                   /\ last.predictions[k].item = item
                   /\ ~last.predictions[k].urgent

(* C26 witness: Milk restocked at day 0 and day 10; 9 days after the second
   restock it is returned, not urgent. *)
C26_Witness ==
    /\ last.op = "predict"
    /\ invFile.history = <<[item |-> "Milk", action |-> "stocked", timestamp |-> 0],
                           [item |-> "Milk", action |-> "stocked", timestamp |-> 240]>>
    /\ last.at = 240 + 9 * HOURS_PER_DAY
    /\ last.predictions = <<[item |-> "Milk", avgDays |-> 10, daysSinceRestock |-> 9,
                             urgent |-> FALSE]>>

(* C27: resolveClarification for a requester with nothing pending returns
   none and leaves pending.json as it is; and a call that repeats the call
   just before it (whose write was accepted) changes nothing. *)
C27_ResolveIdempotent ==
    [][ (last'.op = "resolve" /\ inflight' = inflight /\ processed' = processed)
        => /\ FindClarification(pendFile, last'.userId) = <<>>
                => (pendFile' = pendFile /\ last'.removed = <<>>)
           /\ last'.repeated
                => (pendFile' = pendFile /\ last'.removed = <<>>) ]_vars

(* C27 witness: resolveClarification was called twice in a row for a
   requester; the second call removed nothing, and the clarification of the
   other requester is still pending. *)
C27_Witness ==
    /\ last.op = "resolve"
    /\ last.repeated
    /\ last.removed = <<>>
    /\ Len(pendFile.clarifications) = 1
    /\ pendFile.clarifications[1].userId # last.userId

(* the loaded object has every key of the saved one whose value is not
   undefined, with the same value, and no other key *)
SameDefinedFields(loaded, saved) ==
    /\ \A f \in DOMAIN loaded : f \in DOMAIN saved /\ loaded[f] = saved[f]
    /\ \A f \in DOMAIN saved \ DOMAIN loaded : f \notin TimeKeys /\ saved[f] = Undef

(* C28 as claimed: the inventory loaded after a save is identical to the
   document that was saved. *)
C28_RoundTripIdentical ==
    (last.op = "v2" /\ last.fs.inv /\ last.saved # <<>>)
    => invFile = last.saved[1]

(* C28 amended: the inventory loaded after a save has the categories, the
   item keys and the history length of the document that was saved, and
   every record and history entry has the same value for every field whose
   saved value is defined; a field whose saved value is undefined (quantity,
   unit or note never supplied) is absent after loading. *)
C28_RoundTripDefinedFields ==
    (last.op = "v2" /\ last.fs.inv /\ last.saved # <<>>)
    => LET saved == last.saved[1]
       IN  /\ invFile.categories = saved.categories
           /\ DOMAIN invFile.items = DOMAIN saved.items
           /\ \A n \in DOMAIN saved.items :
                 SameDefinedFields(invFile.items[n], saved.items[n])
           /\ Len(invFile.history) = Len(saved.history)
           /\ \A h \in 1..Len(saved.history) :
                 SameDefinedFields(invFile.history[h], saved.history[h])

(* C28 witness: Milk was updated with a note and no quantity or unit, ever:
   the saved record has qty and unit undefined and the loaded one has neither
   key, while status and note are as saved. *)
C28_Witness ==
    /\ last.op = "v2" /\ last.fs.inv /\ last.saved # <<>>
    /\ "Milk" \in DOMAIN last.saved[1].items
    /\ last.saved[1].items["Milk"].qty = Undef
    /\ last.saved[1].items["Milk"].note = "ask supplier"
    /\ "qty" \notin DOMAIN invFile.items["Milk"]
    /\ "unit" \notin DOMAIN invFile.items["Milk"]
    /\ invFile.items["Milk"].note = "ask supplier"
    /\ invFile.items["Milk"].status = last.saved[1].items["Milk"].status

(* a text reads as a question when one of its parts is a question *)
ReadsAsQuestion(text) == \E i \in 1..Len(text) : text[i] \in QuestionTexts

(* C29: when a reconciled message proposes a clarification, the handler
   returns a reply that contains a question: the oracle's reply as it is when
   that already reads as a question, otherwise the oracle's reply followed by
   the question of the clarification. *)
C29_ClarificationIsAsked ==
    (Reconciled /\ Len(last.parsed.clarifications) > 0)
    => /\ last.out # NoReply
       /\ last.out.sent
       /\ ReadsAsQuestion(last.out.text)
       /\ last.out.text =
             IF ReadsAsQuestion(TextOf(last.parsed.reply))
             THEN TextOf(last.parsed.reply)
             ELSE TextOf(last.parsed.reply)
                    \o <<"\n\n", last.parsed.clarifications[1].question>>

(* C29 witness: the oracle replied "Got it", updated Milk and proposed the
   clarification about cups; the reply is "Got it" followed by the question
   and not the confirmation of the update. *)
C29_Witness ==
    /\ Reconciled
    /\ last.parsed.reply = "Got it"
    /\ last.parsed.clarifications = <<CupsClarification>>
    /\ Len(last.updatedItems) = 1
    /\ last.out.text = <<"Got it", "\n\n", "Which cups?">>

(* the ids of the same type issued on the same day before the i-th id *)
EarlierSameDay(i) ==
    {j \in 1..(i - 1) :
        /\ orders.issued[j].type = orders.issued[i].type
        /\ DateOf(orders.issued[j].at) = DateOf(orders.issued[i].at)}

(* C30: the counters restart on every local calendar day: the first id of a
   type issued on a day carries the sequence number 1, and each later id of
   that type on that day carries the number of the one before it plus one. *)
C30_CountersResetDaily ==
    \A i \in 1..Len(orders.issued) :
        orders.issued[i].num = Cardinality(EarlierSameDay(i)) + 1

----------------------------------------------------------------------------
(* the v2 handler has just run with the writes of inventory.json accepted *)
HandledV2 == last'.op = "v2" /\ processed' = processed + 1 /\ last'.fs.inv

(* C32: each successful update appends exactly one history entry, whose item
   is the canonical name and whose action is the target status of the update,
   in the order of the updates; an update whose phrase does not resolve
   appends no entry and changes no item record: the records that differ
   afterwards are those of the items successfully updated. *)
C32_OneEntryPerUpdate ==
    [][ HandledV2 =>
          LET n == Len(invFile.history)
              u == last'.updatedItems
          IN  /\ Len(invFile'.history) = n + Len(u)
              /\ SubSeq(invFile'.history, 1, n) = invFile.history
              /\ \A k \in 1..Len(u) :
                    /\ u[k].name \in CanonicalNames
                    /\ invFile'.history[n + k].item = u[k].name
                    /\ invFile'.history[n + k].action = u[k].status
              /\ \A i \in CanonicalNames :
                    (\A k \in 1..Len(u) : u[k].name # i)
                    => /\ (i \in DOMAIN invFile'.items) = (i \in DOMAIN invFile.items)
                       /\ i \in DOMAIN invFile.items
                            => invFile'.items[i] = invFile.items[i] ]_vars

(* C32 witness: the message updated "croissant", which resolves to nothing,
   and Milk: one entry for Milk / out was appended and Milk has the only
   record. *)
C32_Witness ==
    /\ Reconciled /\ last.fs.inv
    /\ last.failedItems = <<"croissant">>
    /\ last.updatedItems = <<[name |-> "Milk", status |-> "out"]>>
    /\ Len(invFile.history) = 1
    /\ invFile.history[1].item = "Milk"
    /\ invFile.history[1].action = "out"
    /\ DOMAIN invFile.items = {"Milk"}

(* the status item i had before the k-th successful update of the handler:
   the one set by the update of i before it in the same message, else the one
   of the record the handler found, null when it found none *)
StatusBefore(inv, u, k) ==
    LET earlier == {j \in 1..(k - 1) : u[j].name = u[k].name}
    IN  IF earlier # {}
        THEN u[CHOOSE j \in earlier : \A j2 \in earlier : j2 <= j].status
        ELSE IF u[k].name \in DOMAIN inv.items
        THEN Get(inv.items[u[k].name], "status")
        ELSE Null

(* C33: after a successful update the record's previousStatus is the status
   the item had immediately before that update, and null when the item had no
   record before. *)
C33_PreviousStatus ==
    [][ HandledV2 =>
          LET u == last'.updatedItems
          IN  \A k \in 1..Len(u) :
                (\A j \in (k + 1)..Len(u) : u[j].name # u[k].name)
                => /\ u[k].name \in DOMAIN invFile'.items
                   /\ Get(invFile'.items[u[k].name], "previousStatus")
                        = StatusBefore(invFile, u, k) ]_vars

(* C33 witness: Milk was out; the second message set it to low and then to
   stocked, and the record says stocked with previousStatus low. *)
C33_Witness ==
    /\ Reconciled /\ last.fs.inv /\ processed = 2
    /\ Len(last.updatedItems) = 2
    /\ last.updatedItems[1] = [name |-> "Milk", status |-> "low"]
    /\ last.updatedItems[2] = [name |-> "Milk", status |-> "stocked"]
    /\ invFile.history[1].action = "out"
    /\ invFile.items["Milk"].status = "stocked"
    /\ invFile.items["Milk"].previousStatus = "low"

(* the most recent history entry of item i, as a sequence of length 0 or 1 *)
LatestEntry(inv, i) ==
    LET mine == SelectSeq(inv.history, LAMBDA e : e.item = i)
    IN  IF mine = <<>> THEN <<>> ELSE <<mine[Len(mine)]>>

(* C34: for each item that has a record and an entry in the history, the
   action of its most recent entry is the status of its record. *)
C34_HistoryAgreesWithRecord ==
    \A i \in DOMAIN invFile.items :
        LatestEntry(invFile, i) # <<>>
        => Get(LatestEntry(invFile, i)[1], "action") = Get(invFile.items[i], "status")

(* C34 witness: Milk was updated by two messages, to out and then to low; its
   record says low, as the later of its two entries. *)
C34_Witness ==
    /\ Len(invFile.history) = 2
    /\ invFile.history[1].item = "Milk" /\ Get(invFile.history[1], "action") = "out"
    /\ invFile.history[2].item = "Milk" /\ Get(invFile.history[2], "action") = "low"
    /\ Get(invFile.items["Milk"], "status") = "low"

(* the pending clarifications of user u in the document pend *)
PendingOf(pend, u) == SelectSeq(pend.clarifications, LAMBDA c : c.userId = u)

(* C35: handling a message of one requester leaves the pending clarification
   of every other requester as it was: neither added, removed nor changed. *)
C35_OtherRequestersUntouched ==
    [][ (processed' = processed + 1 /\ last'.op = "v2")
        => \A u \in Users \ {last'.userId} :
              PendingOf(pendFile', u) = PendingOf(pendFile, u) ]_vars

(* C35 witness: u2 has a pending clarification; the message of u1 handled
   last stored a clarification of its own, and that of u2 is still there. *)
C35_Witness ==
    /\ Reconciled /\ last.userId = "u1" /\ last.fs.pend
    /\ Len(last.parsed.clarifications) > 0
    /\ Len(PendingOf(pendFile, "u1")) = 1
    /\ Len(PendingOf(pendFile, "u2")) = 1
    /\ PendingOf(pendFile, "u2")[1].createdAt < PendingOf(pendFile, "u1")[1].createdAt

(* the last handler removed the requester's pending clarification *)
ResolvedPending ==
    /\ Reconciled
    /\ last.pendingBefore # <<>>
    /\ Len(last.parsed.updates) > 0
    /\ last.fs.pend

(* C36: the clarification a message resolves after its oracle call returned
   is the one that was given to the oracle as context before the call; a
   clarification created while the call was in flight is not removed. *)
C36_ResolvesWhatOracleSaw ==
    ResolvedPending => last.pendingBefore = last.context

----------------------------------------------------------------------------
(* the order ids of the messages in a channel *)
OrderIdsIn(channel) == {OrderMatch(channel[k].description) : k \in 1..Len(channel)}

(* C31: an order is in an output channel only after it was posted to the
   intake channel of its type as pending and confirmed there: every order of
   an output channel is, or was, an order of the intake channel. *)
C31_IntakeBeforeOutput ==
    \A type \in OrderTypes :
        \A k \in 1..Len(orders.output[type]) :
            \E p \in 1..Len(orders.intake[type]) :
                orders.intake[type][p].description
                    = orders.output[type][k].description

(* C37: within one run, no two calls of generateOrderId for the same order
   type return the same id, whatever the days of the calls. *)
C37_OrderIdsDistinct ==
    \A i, j \in 1..Len(orders.issued) :
        (i < j /\ orders.issued[i].type = orders.issued[j].type)
        => orders.issued[i].id # orders.issued[j].id

(* C38: /delete with order id X selects only a message whose order id is
   exactly X, never one whose id merely starts with X. *)
C38_DeleteSelectsExactId ==
    (last.op = "delete" /\ last.selected # <<>>)
    => OrderMatch(last.selected[1].description) = last.orderId

(* C39: on delete confirmation, the calendar event of an order is deleted
   only if the message of the order was deleted from its output channel; when
   deleting the message fails the calendar keeps the event. *)
C39_EventDeletedWithMessage ==
    [][ (last'.op = "confirm" /\ orders'.calendar # orders.calendar)
        => last'.deleted ]_vars

(* C40: every calendar event created by a submission belongs to a message
   that was posted to the output channel of the order and carries the event
   id in its footer; when posting fails no event of the order remains. *)
C40_EventHasPostedMessage ==
    [][ (last'.op = "submit" /\ orders'.serial # orders.serial)
        => \A e \in orders'.calendar \ orders.calendar :
              /\ last'.posted
              /\ \E k \in 1..Len(orders'.output[last'.type]) :
                    LET msg == orders'.output[last'.type][k]
                    IN  /\ OrderMatch(msg.description) = e.orderId
                        /\ CalMatch(msg.footer) = e.eventId ]_vars

====
